---- MODULE Spec2Model ----
(***************************************************************************)
(* Model of vk_idbuffer_rasterization: the scene loader's per-part         *)
(* identifier encodings (cadscene.cpp), the draw-item batcher              *)
(* (renderer.cpp) and the per-fragment part-identifier resolution of the   *)
(* shaders (direct lookup, local bounded search, global search).           *)
(*                                                                         *)
(* C arrays are functions over 0..n-1; std::vector<DrawItem> is a          *)
(* sequence.                                                               *)
(***************************************************************************)
EXTENDS Integers, Sequences, FiniteSets, TLC

VARIABLES
  \* ---- host side: CadScene and Renderer
  csf,            \* the CSFile handed to CadScene::loadCSF
  m_geometry,     \* CadScene::m_geometry
  m_objects,      \* CadScene::m_objects
  m_config,       \* Renderer::m_config (+ the maxCombine chosen by RendererVK::init)
  m_drawItems,    \* RendererVK::m_drawItems
  m_renderStats,  \* Sample::m_renderStats
  \* ---- Renderer::fillDrawItems taken object by object
  fill_from,       \* size_t from
  fill_maxObjects, \* size_t maxObjects
  fill_i,          \* the loop's i
  fill_processed,  \* the indices scene->m_objects was read at
  \* ---- picking, RendererVK::draw and the fragment shader's shading()
  view_buffer,     \* res->m_common.view.buffer: SceneData scene; RayData rayLast
  ray_buffer,      \* res->m_common.ray.buffer: RayData ray
  frame,           \* frames drawn so far
  pk_fragments,    \* the fragment invocations of the frame's draws
  pk_pending,      \* those that have not run yet
  pk_written,      \* the packed values the frame's invocations handed to atomicMin
  pk_highlighted,  \* the invocations that took the highlight branch
  pk_snapshot,     \* the value the last vkCmdCopyBuffer copied, if any (a set)
  \* ---- CadScene members loadCSF sets and unload leaves
  m_materials,      \* CadScene::m_materials
  m_numObjectParts, \* CadScene::m_numObjectParts
  \* ---- Sample: the settings the UI edits
  m_tweak,         \* Sample::m_tweak (its config)
  m_lastTweak,     \* Sample::m_lastTweak
  \* ---- the depth test at the pixel under the mouse
  zs_rasterized,   \* fragments of the frame's draws at that pixel, not yet depth-tested
  zs_depth,        \* the depth attachment's value at that pixel
  zs_discarded,    \* fragments the early depth test discarded
  \* ---- GeometryMemoryVK and CadSceneVK::init
  m_geometryMem,   \* CadSceneVK::m_geometryMem: m_maxChunk and m_chunks
  vk_geometry,     \* CadSceneVK::m_geometry: the allocation of each geometry
  ls_draw,         \* a local-search draw on the part-count buffer, if any (a set)
  \* ---- RendererVK::fillCmdBuffer
  cmd_last,        \* lastMaterial, lastGeometry, lastMatrix, lastUniqueOffset
  cmd_push,        \* the push constants as the commands recorded so far leave them
  \* ---- one shader invocation (drawid_primid.frag.glsl main)
  defines,        \* the preprocessor defines the shader was compiled with
  idsBuffer,      \* the array PUSH.idsAddr points to
  idsOffset,      \* the per-draw 32-bit value (getIdsOffset())
  windowShift,    \* bits the shader source in use shifts idsOffset by (16 or 8)
  gl_PrimitiveID, \* draw-local triangle index
  drawItem,       \* position in m_drawItems of the draw being shaded (0: none)
  partOffset, partCount, l, h, value,
  guess, guessIsLow, bound, canary,
  begin, i_loop,  \* the local search's accumulator and its loop counter i
  partIndex,
  reads,          \* indices of idsBuffer read so far
  pc              \* position of the running procedure

fillVars   == <<fill_from, fill_maxObjects, fill_i, fill_processed>>
pickVars   == <<view_buffer, ray_buffer, frame, pk_fragments, pk_pending, pk_written,
                pk_highlighted, pk_snapshot>>
depthVars  == <<zs_rasterized, zs_depth, zs_discarded>>
memVars    == <<m_geometryMem, vk_geometry, ls_draw>>
cmdVars    == <<cmd_last, cmd_push>>
uiVars     == <<m_tweak, m_lastTweak>>
sceneKept  == <<m_materials, m_numObjectParts>>
hostVars   == <<csf, m_geometry, m_objects, m_config, m_drawItems, m_renderStats, fillVars,
                pickVars, memVars, depthVars, cmdVars, uiVars, sceneKept>>
shaderIn   == <<defines, idsBuffer, idsOffset, windowShift, gl_PrimitiveID, drawItem>>
shaderVars == <<shaderIn, partOffset, partCount, l, h, value, guess, guessIsLow, bound,
                canary, begin, i_loop, partIndex, reads>>
vars       == <<hostVars, shaderVars, pc>>

-----------------------------------------------------------------------------
(* Bounds of the model and the input domains drawn from them.              *)

\* parts of the geometry a search shader runs on
MaxSearchParts == 5
\* parts of the geometry of a batched object
MaxParts == 3
\* parts of the geometry of a scene loaded with a clone
MaxCloneParts == 2
\* largest finite maxCombine tried (the UI allows "search batch" 4..32)
MaxCombine == 4
\* largest GLOBAL_NARY_ITERATIONS_MAX tried (the UI allows 0..32)
MaxNaryIterations == 2
\* parts of the long geometries on which the N-ary loop iterates more than once
MaxStressParts == 12

\* triangles of one geometry part
PartTriChoices == 0 .. 2
\* CSF stores triangle lists: a part's numIndexSolid is 3 * its triangles
IndexCountChoices == { 3 * t : t \in PartTriChoices }

\* the worked example of the shader's comment: triangles per part [150, 10, 290, 123]
ExampleIndexCounts == [p \in 0 .. 3 |-> CASE p = 0 -> 450 [] p = 1 -> 30 [] p = 2 -> 870 [] OTHER -> 369]
ExamplePrimitives == {133, 293}

\* long geometries: one triangle per part, and a mix with empty parts
StressIndexCounts ==
  { [p \in 0 .. MaxStressParts - 1 |-> 3],
    [p \in 0 .. MaxStressParts - 1 |-> 3 * (p % 3)] }

-----------------------------------------------------------------------------
(* Helpers.                                                                *)

Min(a, b) == IF a < b THEN a ELSE b
Max(a, b) == IF a > b THEN a ELSE b
SetMax(S) == CHOOSE x \in S : \A y \in S : y <= x
Size(a) == Cardinality(DOMAIN a)
Arrays(n, S) == [0 .. n - 1 -> S]

\* sum of a[i] for lo <= i < hi
RECURSIVE SumRange(_, _, _)
SumRange(a, lo, hi) == IF lo >= hi THEN 0 ELSE a[lo] + SumRange(a, lo + 1, hi)

-----------------------------------------------------------------------------
(* CadScene::loadCSF, geometry parts (cadscene.cpp 193-227).               *)
(* nis[p] is csfgeom->parts[p].numIndexSolid.                              *)

sizeof_uint32 == 4

\* geom.partTriCountsData[p] = csfgeom->parts[p].numIndexSolid / 3
PartTriCounts(nis) == [p \in DOMAIN nis |-> nis[p] \div 3]

\* the prefix sum with the part's own count added in
PartTriOffsets_Inclusive(nis) ==
  LET cnt == PartTriCounts(nis)
      off[p \in DOMAIN nis] == IF p > 0 THEN off[p - 1] + cnt[p] ELSE 0
  IN  off

\* geom.partTriOffsetsData[p] = p > 0 ? partTriOffsetsData[p-1] + partTriCountsData[p-1] : 0
PartTriOffsets(nis) ==
  LET cnt == PartTriCounts(nis)
      off[p \in DOMAIN nis] == IF p > 0 THEN off[p - 1] + cnt[p - 1] ELSE 0
  IN  off

-----------------------------------------------------------------------------
(* Global search, MODE_PER_TRI_GLOBAL_PART_SEARCH_FS (cadscene_vk.cpp      *)
(* 350-461).                                                               *)

\* uint partOffset = getIdsOffset() >> 16;  uint partCount = getIdsOffset() & 0xFFFF;
WindowOffset16(v) == v \div 65536
WindowCount16(v)  == v % 65536
\* the value a host that packs 16/16 attaches to the draw
PackWindow16(po, cnt) == cnt + po * 65536

\* The guess loop and the binary loop are capped at 32 iterations.
CanaryLimit == 32

\* int guess = clamp(int(value / trianglesPerPart), l, h - 1), with
\* trianglesPerPart = float(trianglesSecondLast - triangleOffset) / max(1.0, float(partCount - 1)).
\* The quotient is value * den / num.  When num = 0 the division yields
\* inf or NaN and its conversion to int is undefined: any index the clamp
\* lets through.  When the exact quotient is an integer, the two float
\* roundings may leave it just below that integer, so int() may give one less.
GuessCandidates(val, num, den, lo, hi) ==
  LET clamp(x) == Min(Max(x, lo), hi - 1)
  IN  IF num <= 0
        THEN lo .. hi - 1
        ELSE LET q == (val * den) \div num
             IN  {clamp(q)} \cup (IF (val * den) % num = 0 THEN {clamp(q - 1)} ELSE {})

\* one iteration of the step-doubling loop; the result is <<l, h, break>>
GuessProbe(offs, val, lo, hi, g, gLow, bnd) ==
  LET next == IF gLow THEN g + bnd ELSE g - bnd
  IN  IF next < lo \/ next >= hi
        THEN IF gLow THEN <<g, hi, TRUE>> ELSE <<lo, g + 1, TRUE>>
        ELSE LET nextIsLow == offs[next] <= val
             IN  IF gLow # nextIsLow
                   THEN IF gLow THEN <<g, next + 1, TRUE>> ELSE <<next, g + 1, TRUE>>
                   ELSE <<lo, hi, FALSE>>
\* the index that iteration reads, if any
GuessProbeReads(lo, hi, g, gLow, bnd) ==
  LET next == IF gLow THEN g + bnd ELSE g - bnd
  IN  IF next < lo \/ next >= hi THEN {} ELSE {next}

\* the split points of one N-ary iteration: end = begin + step, steps times
NarySplits(lo, hi, steps) ==
  LET step == (hi - lo) \div (steps - 1)
  IN  { lo + (i + 1) * step : i \in 0 .. steps - 1 }

\* if(end < h && partTriOffsets.d[end] < value) l = end;
NaryAccepts(offs, val, end, hi) == end < hi /\ offs[end] < val

\* one iteration of the N-ary loop; the result is <<l, h>>
NaryIteration(offs, val, lo, hi, steps) ==
  LET step == (hi - lo) \div (steps - 1)
      hits == { e \in NarySplits(lo, hi, steps) : NaryAccepts(offs, val, e, hi) }
      newl == IF hits = {} THEN lo ELSE SetMax(hits)
  IN  <<newl, Min(hi, newl + step)>>

\* the binary search that keeps mid in the upper half
BinaryIteration_KeepsMid(offs, val, lo, hi) ==
  LET mid == lo + (hi - lo) \div 2
  IN  IF val < offs[mid] THEN <<lo, mid>> ELSE <<mid, hi>>

\* the binary search with its comparison turned into a lower-bound search
BinaryIteration_LowerBound(offs, val, lo, hi) ==
  LET mid == lo + (hi - lo) \div 2
  IN  IF val <= offs[mid] THEN <<lo, mid>> ELSE <<mid + 1, hi>>

\* one iteration of the upper-bound binary search; the result is <<l, h>>
BinaryIteration(offs, val, lo, hi) ==
  LET mid == lo + (hi - lo) \div 2
  IN  IF val < offs[mid] THEN <<lo, mid>> ELSE <<mid + 1, hi>>

\* the loops as a whole, from the iterations above
RECURSIVE NaryLoop(_, _, _, _, _, _)
NaryLoop(offs, val, lo, hi, c, d) ==
  IF c < d.GLOBAL_NARY_ITERATIONS_MAX /\ lo + d.GLOBAL_NARY_MIN < hi
    THEN LET r == NaryIteration(offs, val, lo, hi, d.GLOBAL_NARY_N)
         IN  NaryLoop(offs, val, r[1], r[2], c + 1, d)
    ELSE <<lo, hi>>

RECURSIVE BinaryLoop(_, _, _, _, _)
BinaryLoop(offs, val, lo, hi, c) ==
  IF c < CanaryLimit /\ lo < hi
    THEN LET r == BinaryIteration(offs, val, lo, hi)
         IN  BinaryLoop(offs, val, r[1], r[2], c + 1)
    ELSE lo

\* the result without the "minus one" of the upper bound
PartIndexOfBound_NoDecrement(lo) == lo

\* int partIndex = l - 1;
PartIndexOfBound(lo) == lo - 1

\* The defines RendererVK::init prepends.  GLOBAL_NARY_N < GLOBAL_NARY_MIN is
\* enforced by the shader's #error; the UI keeps N >= 3.
NaryDefault == [GLOBAL_NARY_N |-> 4, GLOBAL_NARY_MIN |-> 64]
NarySmall   == [GLOBAL_NARY_N |-> 3, GLOBAL_NARY_MIN |-> 4]
GlobalDefines ==
  { [SEARCH_COUNT |-> 0, GLOBAL_GUESS |-> g, GLOBAL_NARY_N |-> n.GLOBAL_NARY_N,
     GLOBAL_NARY_MIN |-> n.GLOBAL_NARY_MIN, GLOBAL_NARY_ITERATIONS_MAX |-> it] :
      g \in BOOLEAN, n \in {NarySmall}, it \in 0 .. MaxNaryIterations }
NoDefines == [SEARCH_COUNT |-> 0, GLOBAL_GUESS |-> FALSE, GLOBAL_NARY_N |-> NaryDefault.GLOBAL_NARY_N,
              GLOBAL_NARY_MIN |-> NaryDefault.GLOBAL_NARY_MIN, GLOBAL_NARY_ITERATIONS_MAX |-> 0]

FillIdle ==
  /\ fill_from = 0 /\ fill_maxObjects = 0 /\ fill_i = 0 /\ fill_processed = {}

PickIdle ==
  /\ view_buffer = <<>> /\ ray_buffer = <<>> /\ frame = 0
  /\ pk_fragments = {} /\ pk_pending = {} /\ pk_written = {} /\ pk_highlighted = {}
  /\ pk_snapshot = {}

\* Config::globalNaryMaxIter as the struct sets it
globalNaryMaxIter_default == 4

\* Config::searchBatch as the struct sets it
searchBatch_default == 16

\* the settings as Renderer::Config declares them (renderer.hpp 48-61)
Config_default ==
  [sorted |-> TRUE, ignoreMaterials |-> FALSE, searchBatch |-> searchBatch_default,
   globalNaryN |-> NaryDefault.GLOBAL_NARY_N, globalNaryMin |-> NaryDefault.GLOBAL_NARY_MIN,
   globalNaryMaxIter |-> globalNaryMaxIter_default, globalSearchGuess |-> TRUE]

DepthIdle ==
  /\ zs_rasterized = {} /\ zs_depth = 0 /\ zs_discarded = {}

MemIdle ==
  /\ m_geometryMem = [m_maxChunk |-> 0, m_chunks |-> <<>>]
  /\ vk_geometry = <<>>
  /\ ls_draw = {}

CmdIdle ==
  /\ cmd_last = <<>> /\ cmd_push = <<>>

UiIdle ==
  /\ m_tweak = [config |-> Config_default] /\ m_lastTweak = m_tweak
  /\ m_materials = <<>> /\ m_numObjectParts = 0

HostIdle ==
  /\ FillIdle
  /\ PickIdle
  /\ UiIdle
  /\ CmdIdle
  /\ DepthIdle
  /\ MemIdle
  /\ csf = <<>>
  /\ m_geometry = <<>>
  /\ m_objects = <<>>
  /\ m_config = <<>>
  /\ m_drawItems = <<>>
  /\ m_renderStats = [drawCalls |-> 0, drawTriangles |-> 0]

ShaderLocalsZero ==
  /\ partOffset = 0 /\ partCount = 0 /\ l = 0 /\ h = 0 /\ value = 0
  /\ guess = 0 /\ guessIsLow = FALSE /\ bound = 0 /\ canary = 0
  /\ begin = 0 /\ i_loop = 0
  /\ partIndex = 0 /\ reads = {}
  /\ drawItem = 0

\* The geometries a global-search draw runs on: every geometry of up to
\* MaxSearchParts parts, the worked example and the long geometries; the
\* draw covers a window of its parts and the fragment belongs to a triangle
\* of the draw.
GlobalSearchGeometries ==
  UNION { Arrays(n, IndexCountChoices) : n \in 1 .. MaxSearchParts }
    \cup {ExampleIndexCounts} \cup StressIndexCounts

\* A window near the 16 bits of partCount: one draw of all the parts of a
\* geometry whose first part has LongFirstTriangles triangles and whose other
\* parts have one each (the partTriOffsets the loader computes for it), shaded
\* at a few triangles of the draw.
LongWindowParts == 8192
LongFirstTriangles == 5000
LongOffsets == [p \in 0 .. LongWindowParts - 1 |-> IF p = 0 THEN 0 ELSE LongFirstTriangles + p - 1]
LongPrimitives ==
  {0, LongFirstTriangles - 1, LongFirstTriangles, LongFirstTriangles + LongWindowParts \div 3,
   LongFirstTriangles + LongWindowParts - 2}
\* the defines of the draws of that window: the N-ary settings Config
\* declares, the phases on or off
LongDefines ==
  { [SEARCH_COUNT |-> 0, GLOBAL_GUESS |-> g, GLOBAL_NARY_N |-> NaryDefault.GLOBAL_NARY_N,
     GLOBAL_NARY_MIN |-> NaryDefault.GLOBAL_NARY_MIN, GLOBAL_NARY_ITERATIONS_MAX |-> it] :
      g \in BOOLEAN, it \in {0, globalNaryMaxIter_default} }

InitGlobal ==
  /\ HostIdle
  /\ \/ \E nis \in GlobalSearchGeometries :
          \E po \in DOMAIN nis :
            \E cnt \in 1 .. Size(nis) - po :
              LET tris == SumRange(PartTriCounts(nis), po, po + cnt)
              IN  /\ idsBuffer = PartTriOffsets(nis)
                  /\ idsOffset = PackWindow16(po, cnt)
                  /\ gl_PrimitiveID \in
                       IF nis = ExampleIndexCounts
                         THEN { t \in ExamplePrimitives : t < tris }
                         ELSE 0 .. tris - 1
     \/ /\ idsBuffer = LongOffsets
        /\ idsOffset = PackWindow16(0, LongWindowParts)
        /\ gl_PrimitiveID \in LongPrimitives
  /\ defines = NoDefines
  /\ windowShift = 16
  /\ ShaderLocalsZero
  /\ pc = "gs_start"

GsSetup ==
  /\ pc = "gs_start"
  /\ \E d \in IF idsBuffer = LongOffsets THEN LongDefines ELSE GlobalDefines : defines' = d
  /\ partOffset' = WindowOffset16(idsOffset)
  /\ partCount' = WindowCount16(idsOffset)
  /\ l' = partOffset'
  /\ h' = partOffset' + partCount'
  /\ value' = idsBuffer[partOffset'] + gl_PrimitiveID
  /\ reads' = {partOffset'}
  /\ canary' = 0
  /\ pc' = IF defines'.GLOBAL_GUESS THEN "gs_guess" ELSE "gs_nary"
  /\ UNCHANGED <<hostVars, windowShift, idsBuffer, idsOffset, gl_PrimitiveID, drawItem,
                 guess, guessIsLow, bound, partIndex, begin, i_loop>>

GsGuessInit ==
  /\ pc = "gs_guess"
  /\ LET last == partOffset + partCount - 1
         num  == idsBuffer[last] - idsBuffer[partOffset]
         den  == Max(1, partCount - 1)
     IN  /\ guess' \in GuessCandidates(value, num, den, l, h)
         /\ guessIsLow' = (idsBuffer[guess'] <= value)
         /\ reads' = reads \cup {last, guess'}
  /\ bound' = 1
  /\ canary' = 0
  /\ pc' = "gs_probe"
  /\ UNCHANGED <<hostVars, shaderIn, partOffset, partCount, l, h, value, partIndex, begin, i_loop>>

GsGuessProbe ==
  /\ pc = "gs_probe"
  /\ LET r == GuessProbe(idsBuffer, value, l, h, guess, guessIsLow, bound)
     IN  /\ l' = r[1]
         /\ h' = r[2]
         /\ reads' = reads \cup GuessProbeReads(l, h, guess, guessIsLow, bound)
         /\ bound' = bound * 2
         /\ canary' = IF r[3] \/ canary + 1 >= CanaryLimit THEN 0 ELSE canary + 1
         /\ pc' = IF r[3] \/ canary + 1 >= CanaryLimit THEN "gs_nary" ELSE "gs_probe"
  /\ UNCHANGED <<hostVars, shaderIn, partOffset, partCount, value,
                 guess, guessIsLow, partIndex, begin, i_loop>>

NaryContinues == canary < defines.GLOBAL_NARY_ITERATIONS_MAX /\ l + defines.GLOBAL_NARY_MIN < h

GsNaryIteration ==
  /\ pc = "gs_nary"
  /\ NaryContinues
  /\ LET r == NaryIteration(idsBuffer, value, l, h, defines.GLOBAL_NARY_N)
     IN  /\ l' = r[1]
         /\ h' = r[2]
         /\ reads' = reads \cup { e \in NarySplits(l, h, defines.GLOBAL_NARY_N) : e < h }
  /\ canary' = canary + 1
  /\ UNCHANGED <<hostVars, shaderIn, partOffset, partCount, value, guess,
                 guessIsLow, bound, partIndex, pc, begin, i_loop>>

GsNaryExit ==
  /\ pc = "gs_nary"
  /\ ~NaryContinues
  /\ canary' = 0
  /\ pc' = "gs_binary"
  /\ UNCHANGED <<hostVars, shaderIn, partOffset, partCount, l, h, value,
                 guess, guessIsLow, bound, partIndex, reads, begin, i_loop>>

BinaryContinues == canary < CanaryLimit /\ l < h

GsBinaryIteration ==
  /\ pc = "gs_binary"
  /\ BinaryContinues
  /\ LET r == BinaryIteration(idsBuffer, value, l, h)
     IN  /\ l' = r[1]
         /\ h' = r[2]
         /\ reads' = reads \cup {l + (h - l) \div 2}
  /\ canary' = canary + 1
  /\ UNCHANGED <<hostVars, shaderIn, partOffset, partCount, value, guess,
                 guessIsLow, bound, partIndex, pc, begin, i_loop>>

GsBinaryExit ==
  /\ pc = "gs_binary"
  /\ ~BinaryContinues
  /\ partIndex' = PartIndexOfBound(l)
  /\ pc' = "gs_done"
  /\ UNCHANGED <<hostVars, shaderIn, partOffset, partCount, l, h, value,
                 guess, guessIsLow, bound, canary, reads, begin, i_loop>>

NextGlobal ==
  \/ GsSetup
  \/ GsGuessInit
  \/ GsGuessProbe
  \/ GsNaryIteration
  \/ GsNaryExit
  \/ GsBinaryIteration
  \/ GsBinaryExit

SpecGlobal == InitGlobal /\ [][NextGlobal]_vars

-----------------------------------------------------------------------------
(* Properties of the global search.                                        *)

SetMin(S) == CHOOSE x \in S : \A y \in S : x <= y
Window == partOffset .. partOffset + partCount - 1
\* greatest index of the draw's window whose offset is <= value
GreatestNotAbove == SetMax({ i \in Window : idsBuffer[i] <= value })
\* first index of the draw's window whose offset exceeds value (its end if none)
FirstAbove ==
  LET above == { i \in Window : idsBuffer[i] > value }
  IN  IF above = {} THEN partOffset + partCount ELSE SetMin(above)
RangeBrackets == idsBuffer[l] <= value /\ l < FirstAbove /\ FirstAbove <= h

GuessOff == ~defines.GLOBAL_GUESS
NaryOff  == defines.GLOBAL_NARY_ITERATIONS_MAX = 0

\* C1: with the guess and the N-ary phase disabled, the search returns the
\* greatest index of the window whose partTriOffset is <= value.
C1_BinarySearchFindsGreatest ==
  (pc = "gs_done" /\ GuessOff /\ NaryOff) => partIndex = GreatestNotAbove

\* a draw of several parts, starting inside the geometry, resolved to a part
\* in the middle of the window for a triangle that is not the part's first
C1_Witness ==
  /\ pc = "gs_done" /\ GuessOff /\ NaryOff
  /\ partOffset > 0 /\ partCount >= 3
  /\ partIndex > partOffset /\ partIndex < partOffset + partCount - 1
  /\ value > idsBuffer[partIndex]

\* C2: the N-ary phase never changes the result: after each of its
\* iterations [l, h] still brackets the first index whose offset exceeds
\* value, and the final partIndex is the one of the binary search alone.
C2_NaryKeepsResult ==
  ~NaryOff =>
    /\ (pc = "gs_nary" /\ canary > 0) => RangeBrackets
    /\ pc = "gs_done" =>
         partIndex = PartIndexOfBound(BinaryLoop(idsBuffer, value, partOffset, partOffset + partCount, 0))

\* C3: the guess never changes the result: the range it hands over still
\* brackets the first index whose offset exceeds value, and the final
\* partIndex is the one the same shader computes without the guess.
C3_GuessKeepsResult ==
  ~GuessOff =>
    /\ (pc = "gs_nary" /\ canary = 0) => RangeBrackets
    /\ pc = "gs_done" =>
         LET r == NaryLoop(idsBuffer, value, partOffset, partOffset + partCount, 0, defines)
         IN  partIndex = PartIndexOfBound(BinaryLoop(idsBuffer, value, r[1], r[2], 0))

\* the guess alone (N-ary phase disabled) does keep the result
GuessAloneKeepsResult ==
  (~GuessOff /\ NaryOff) =>
    /\ pc = "gs_nary" => RangeBrackets
    /\ pc = "gs_done" => partIndex = GreatestNotAbove

\* partTriOffsets of the worked example
ExampleOffsets == [p \in 0 .. 3 |-> CASE p = 0 -> 0 [] p = 1 -> 150 [] p = 2 -> 160 [] OTHER -> 450]
ExampleDraw == idsBuffer = ExampleOffsets /\ partOffset = 2 /\ partCount = 2

\* C4 as stated: absolute triangle index 293 within [2,4) resolves to part 3.
C4_AbsoluteIndex293IsPart3 ==
  (pc = "gs_done" /\ ExampleDraw /\ value = 293) => partIndex = 3

\* C4 as amended: draw-local triangle index 293 within [2,4), which is
\* absolute triangle index 160 + 293 = 453, resolves to part 3.
C4_DrawLocalIndex293IsPart3 ==
  (pc = "gs_done" /\ ExampleDraw /\ gl_PrimitiveID = 293) => (value = 453 /\ partIndex = 3)

C4_Witness == pc = "gs_done" /\ ExampleDraw /\ gl_PrimitiveID = 293 /\ ~GuessOff /\ ~NaryOff

-----------------------------------------------------------------------------
(* Local bounded search, SEARCH_COUNT > 0 (cadscene_vk.cpp 314-348,        *)
(* drawid_primid.frag.glsl 88-117, drawid_primid_gs.geo.glsl 106-136).     *)

\* smallest "search batch" the UI lets through
MinSearchBatch == 4
\* largest SEARCH_COUNT tried
MaxSearchCount == 4
\* first part of the draw's window
MaxLocalOffset == 1

\* What follows the window in the part-count buffer: further parts of the
\* geometry, another geometry's counts, or bytes nothing ever wrote, read
\* as int(uint): 0xFFFFFFFF is -1.  The sums of the model stay far below
\* 2^31, so int's wrap-around is never reached.
TailChoices == PartTriChoices \cup {-1, 1000000}

\* uint partOffset = idsOffset >> 8;  uint partCount = idsOffset & 0xFF;
WindowOffset8(v) == v \div 256
WindowCount8(v)  == v % 256
PackWindow8(po, cnt) == cnt + po * 256

WindowOffset(v, shift) == IF shift = 16 THEN WindowOffset16(v) ELSE WindowOffset8(v)
WindowCount(v, shift)  == IF shift = 16 THEN WindowCount16(v) ELSE WindowCount8(v)
PackWindow(po, cnt, shift) == IF shift = 16 THEN PackWindow16(po, cnt) ELSE PackWindow8(po, cnt)

\* the test without its "i < partCount"
LocalAccepts_NoWindowTest(idx, cnt, prim, bgn, partTriangleCount) ==
  prim >= bgn /\ prim < bgn + partTriangleCount

\* if (i < partCount && gl_PrimitiveID >= begin && gl_PrimitiveID < begin + partTriangleCount)
LocalAccepts(idx, cnt, prim, bgn, partTriangleCount) ==
  idx < cnt /\ prim >= bgn /\ prim < bgn + partTriangleCount

LocalDefines ==
  { [SEARCH_COUNT |-> sc, GLOBAL_GUESS |-> FALSE, GLOBAL_NARY_N |-> NaryDefault.GLOBAL_NARY_N,
     GLOBAL_NARY_MIN |-> NaryDefault.GLOBAL_NARY_MIN, GLOBAL_NARY_ITERATIONS_MAX |-> 0] :
      sc \in MinSearchBatch .. MaxSearchCount }

\* A draw of cnt <= SEARCH_COUNT parts starting at part po; the buffer holds
\* the loader's counts up to the end of the window and anything after it.
InitLocal ==
  /\ HostIdle
  /\ \E d \in LocalDefines, shift \in {8, 16}, po \in 0 .. MaxLocalOffset :
       \E cnt \in 1 .. d.SEARCH_COUNT :
         \E nis \in Arrays(po + cnt, IndexCountChoices) :
           \E tail \in [po + cnt .. po + d.SEARCH_COUNT - 1 -> TailChoices] :
             LET counts == PartTriCounts(nis)
             IN  /\ defines = d
                 /\ windowShift = shift
                 /\ idsBuffer = [k \in 0 .. po + d.SEARCH_COUNT - 1 |->
                                   IF k < po + cnt THEN counts[k] ELSE tail[k]]
                 /\ idsOffset = PackWindow(po, cnt, shift)
                 /\ gl_PrimitiveID \in 0 .. SumRange(counts, po, po + cnt) - 1
  /\ ShaderLocalsZero
  /\ pc = "ls_start"

LsSetup ==
  /\ pc = "ls_start"
  /\ partOffset' = WindowOffset(idsOffset, windowShift)
  /\ partCount' = WindowCount(idsOffset, windowShift)
  /\ begin' = 0
  /\ partIndex' = 0
  /\ i_loop' = 0
  /\ pc' = "ls_loop"
  /\ UNCHANGED <<hostVars, shaderIn, l, h, value, guess, guessIsLow, bound, canary, reads>>

LsIteration ==
  /\ pc = "ls_loop"
  /\ i_loop < defines.SEARCH_COUNT
  /\ LET partTriangleCount == idsBuffer[partOffset + i_loop]
     IN  /\ partIndex' = IF LocalAccepts(i_loop, partCount, gl_PrimitiveID, begin, partTriangleCount)
                           THEN i_loop ELSE partIndex
         /\ begin' = begin + partTriangleCount
  /\ reads' = reads \cup {partOffset + i_loop}
  /\ i_loop' = i_loop + 1
  /\ UNCHANGED <<hostVars, shaderIn, partOffset, partCount, l, h, value, guess, guessIsLow,
                 bound, canary, pc>>

LsFinish ==
  /\ pc = "ls_loop"
  /\ i_loop >= defines.SEARCH_COUNT
  /\ partIndex' = partIndex + partOffset
  /\ pc' = "ls_done"
  /\ UNCHANGED <<hostVars, shaderIn, partOffset, partCount, l, h, value, guess, guessIsLow,
                 bound, canary, begin, i_loop, reads>>

NextLocal ==
  \/ LsSetup
  \/ LsIteration
  \/ LsFinish

SpecLocal == InitLocal /\ [][NextLocal]_vars

\* C5: the local search returns partOffset + i for the one i < partCount
\* whose triangles [sum of the counts before it, + its count) hold the
\* triangle; it reads all SEARCH_COUNT entries; the entries after the window
\* (drawn from every TailChoices value) have no influence.
C5_LocalSearchFindsPart ==
  pc = "ls_done" =>
    /\ partIndex \in Window
    /\ SumRange(idsBuffer, partOffset, partIndex) <= gl_PrimitiveID
    /\ gl_PrimitiveID < SumRange(idsBuffer, partOffset, partIndex + 1)
    /\ reads = partOffset .. partOffset + defines.SEARCH_COUNT - 1

\* a draw of fewer parts than SEARCH_COUNT, with garbage after the window,
\* resolved to a part that is not the window's first
C5_Witness ==
  /\ pc = "ls_done"
  /\ partCount < defines.SEARCH_COUNT
  /\ partOffset > 0
  /\ partIndex > partOffset
  /\ idsBuffer[partOffset + partCount] = -1
  /\ idsBuffer[partOffset + defines.SEARCH_COUNT - 1] = 2

-----------------------------------------------------------------------------
(* CadScene::loadCSF (cadscene.cpp 107-426).  The file is a record         *)
(*   [materials, geometries, nodes]; csf also carries the clones argument  *)
(*   and whether CSFile_loadExt succeeds with CADSCENEFILE_FLAG_UNIQUENODES.*)

\* csfgeom->parts[p].numIndexSolid as an array
PartIndexCounts(csfgeom) == [p \in DOMAIN csfgeom.parts |-> csfgeom.parts[p].numIndexSolid]

\* geom.parts[p].indexSolid: count = numIndexSolid, offset = offsetSolid, the
\* running sum of numIndexSolid * sizeof(uint32_t)
GeometryParts(nis) ==
  LET offsetSolid[p \in DOMAIN nis] ==
        IF p > 0 THEN offsetSolid[p - 1] + nis[p - 1] * sizeof_uint32 ELSE 0
  IN  [p \in DOMAIN nis |-> [indexSolid |-> [offset |-> offsetSolid[p], count |-> nis[p]]]]

\* geom.trianglePartIdsData[i + offsetIds] = p for i < numIndexSolid / 3,
\* offsetIds the running sum of numIndexSolid / 3; the array has
\* csfgeom->numIndexSolid / 3 entries
TrianglePartIds(nis, numIndexSolid) ==
  LET offsetIds[p \in DOMAIN nis] ==
        IF p > 0 THEN offsetIds[p - 1] + nis[p - 1] \div 3 ELSE 0
  IN  [t \in 0 .. numIndexSolid \div 3 - 1 |->
         CHOOSE p \in DOMAIN nis : offsetIds[p] <= t /\ t < offsetIds[p] + nis[p] \div 3]

LoadGeometry(csfgeom) ==
  LET nis == PartIndexCounts(csfgeom)
  IN  [parts               |-> GeometryParts(nis),
       partTriCountsData   |-> PartTriCounts(nis),
       partTriOffsetsData  |-> PartTriOffsets(nis),
       trianglePartIdsData |-> TrianglePartIds(nis, csfgeom.numIndexSolid),
       iboSize             |-> sizeof_uint32 * csfgeom.numIndexSolid,
       trianglePartIdsSize |-> sizeof_uint32 * (csfgeom.numIndexSolid \div 3)]

\* m_geometry: the file's geometries, then one copy of them per clone
\* (geom = geomorig; geom.cloneIdx = n)
LoadGeometries(file, clones) ==
  LET numGeoms == Size(file.geometries)
  IN  [g \in 0 .. numGeoms * (clones + 1) - 1 |->
         LET geomorig == LoadGeometry(file.geometries[g % numGeoms])
         IN  IF g < numGeoms THEN geomorig
             ELSE [f \in DOMAIN geomorig \cup {"cloneIdx"} |->
                     IF f = "cloneIdx" THEN g % numGeoms ELSE geomorig[f]]]

\* the nodes that carry a geometry, in node order
RECURSIVE ObjectNodes(_, _)
ObjectNodes(nodes, n) ==
  IF n >= Size(nodes) THEN <<>>
  ELSE (IF nodes[n].geometryIDX < 0 THEN <<>> ELSE <<n>>) \o ObjectNodes(nodes, n + 1)

\* object.parts[i]: active unless the material's alpha (color[3], here in
\* tenths) is below 0.9
LoadObjectPart(file, objectMatrixIndex, csfpart) ==
  [active        |-> IF file.materials[csfpart.materialIDX].color3 < 9 THEN 0 ELSE 1,
   matrixIndex   |-> IF csfpart.nodeIDX < 0 THEN objectMatrixIndex ELSE csfpart.nodeIDX,
   materialIndex |-> csfpart.materialIDX]

\* the objects of the file itself; uniquePartOffset is the running m_numObjectParts
LoadObjects(file) ==
  LET on == ObjectNodes(file.nodes, 0)
      numObjectParts[k \in 1 .. Len(on)] ==
        IF k > 1 THEN numObjectParts[k - 1] + Size(file.nodes[on[k - 1]].parts) ELSE 0
  IN  [k \in 0 .. Len(on) - 1 |->
         LET n == on[k + 1]
         IN  [matrixIndex      |-> n,
              geometryIndex    |-> file.nodes[n].geometryIDX,
              uniquePartOffset |-> numObjectParts[k + 1],
              parts |-> [i \in DOMAIN file.nodes[n].parts |->
                           LoadObjectPart(file, n, file.nodes[n].parts[i])]]]

\* m_numObjectParts counting the first object only
NumObjectParts_FirstObject(file) ==
  LET on == ObjectNodes(file.nodes, 0)
  IN  IF Len(on) = 0 THEN 0 ELSE Size(file.nodes[on[1]].parts)

\* m_numObjectParts after the object loop
NumObjectParts(file) ==
  LET on == ObjectNodes(file.nodes, 0)
  IN  SumRange([k \in 0 .. Len(on) - 1 |-> Size(file.nodes[on[k + 1]].parts)], 0, Len(on))

\* clone objects: m_objects[n + numObjects * c] = m_objects[n] with its
\* geometry, matrices and uniquePartOffset moved to the c-th copy
CloneObjects(file, clones) ==
  LET orig       == LoadObjects(file)
      numObjects == Size(orig)
      numGeoms   == Size(file.geometries)
      numNodes   == Size(file.nodes)
  IN  [k \in 0 .. numObjects * (clones + 1) - 1 |->
         LET c          == k \div numObjects
             objectorig == orig[k % numObjects]
         IN  [matrixIndex      |-> objectorig.matrixIndex + c * numNodes,
              geometryIndex    |-> objectorig.geometryIndex + c * numGeoms,
              uniquePartOffset |-> objectorig.uniquePartOffset + c * NumObjectParts(file),
              parts |-> [i \in DOMAIN objectorig.parts |->
                           [objectorig.parts[i] EXCEPT !.matrixIndex = @ + c * numNodes]]]]

-----------------------------------------------------------------------------
(* Renderer::fillDrawItems and its helpers (renderer.cpp 34-146).          *)

\* CadScene::DrawRange as Renderer::DrawItem di; leaves it: an empty range.
DrawRange_default == [offset |-> 0, count |-> 0]

\* di.partIndex of FillCombined before its first "new start", partCount of
\* FillIndividual's di: never assigned.  The first is never pushed; the
\* second is pushed with whatever the stack held.
Unassigned == "unassigned"
UninitInts == {1, -858993460}

\* the test made on the part count instead of the index count
AddItem_TestsPartCount(drawItems, di) == IF di.partCount # 0 THEN Append(drawItems, di) ELSE drawItems

\* if(di.range.count) drawItems.push_back(di);
AddItem(drawItems, di) == IF di.range.count # 0 THEN Append(drawItems, di) ELSE drawItems

\* "finish old, start new" without the material test
StartsNewItem_NoMaterialTest(di, part, mesh, config, maxCombine) ==
  \/ di.matrixIndex # part.matrixIndex
  \/ di.range.offset + di.range.count * sizeof_uint32 # mesh.indexSolid.offset
  \/ di.partCount = maxCombine

\* "finish old, start new" with the part count compared by >
StartsNewItem_OffByOne(di, part, mesh, config, maxCombine) ==
  \/ di.matrixIndex # part.matrixIndex
  \/ (~config.ignoreMaterials /\ di.materialIndex # part.materialIndex)
  \/ di.range.offset + di.range.count * sizeof_uint32 # mesh.indexSolid.offset
  \/ di.partCount > maxCombine

\* the condition of "finish old, start new"
StartsNewItem(di, part, mesh, config, maxCombine) ==
  \/ di.matrixIndex # part.matrixIndex
  \/ (~config.ignoreMaterials /\ di.materialIndex # part.materialIndex)
  \/ di.range.offset + di.range.count * sizeof_uint32 # mesh.indexSolid.offset
  \/ di.partCount = maxCombine

\* FillCombined's loop from part p on, then its closing AddItem
RECURSIVE CombineFrom(_, _, _, _, _, _, _)
CombineFrom(drawItems, di, p, config, obj, geo, maxCombine) ==
  IF p >= Size(obj.parts) THEN AddItem(drawItems, di)
  ELSE
    LET part == obj.parts[p]
        mesh == geo.parts[p]
    IN  IF part.active = 0 THEN CombineFrom(drawItems, di, p + 1, config, obj, geo, maxCombine)
        ELSE
          LET fresh   == StartsNewItem(di, part, mesh, config, maxCombine)
              started == IF fresh
                           THEN [di EXCEPT !.matrixIndex   = part.matrixIndex,
                                           !.materialIndex = IF config.ignoreMaterials THEN 0
                                                             ELSE part.materialIndex,
                                           !.range         = [offset |-> mesh.indexSolid.offset,
                                                              count  |-> 0],
                                           !.partIndex     = p,
                                           !.partCount     = 0]
                           ELSE di
          IN  CombineFrom(IF fresh THEN AddItem(drawItems, di) ELSE drawItems,
                          [started EXCEPT !.range.count = @ + mesh.indexSolid.count,
                                          !.partCount   = @ + 1],
                          p + 1, config, obj, geo, maxCombine)

FillCombined(drawItems, config, obj, geo, objectIndex, maxCombine) ==
  CombineFrom(drawItems,
              [geometryIndex |-> obj.geometryIndex,
               objectIndex   |-> objectIndex,
               materialIndex |-> -1,
               matrixIndex   |-> -1,
               objectOffset  |-> obj.uniquePartOffset,
               partCount     |-> 0,
               partIndex     |-> Unassigned,
               range         |-> DrawRange_default],
              0, config, obj, geo, maxCombine)

\* FillIndividual's test with the inactive parts let through
SkipsPart_Never(part) == FALSE

\* if(!part.active) continue;
SkipsPart(part) == part.active = 0

\* FillIndividual's loop from part p on.  di.partCount is never assigned:
\* every vector the unassigned values can give is a result.
RECURSIVE IndividualFrom(_, _, _, _, _, _)
IndividualFrom(results, p, config, obj, geo, objectIndex) ==
  IF p >= Size(obj.parts) THEN results
  ELSE
    LET part == obj.parts[p]
        mesh == geo.parts[p]
    IN  IF SkipsPart(part) THEN IndividualFrom(results, p + 1, config, obj, geo, objectIndex)
        ELSE IndividualFrom(
               { AddItem(drawItems,
                         [geometryIndex |-> obj.geometryIndex,
                          matrixIndex   |-> part.matrixIndex,
                          materialIndex |-> part.materialIndex,
                          partIndex     |-> p,
                          range         |-> mesh.indexSolid,
                          objectIndex   |-> objectIndex,
                          objectOffset  |-> obj.uniquePartOffset,
                          partCount     |-> garbage]) :
                   drawItems \in results, garbage \in UninitInts },
               p + 1, config, obj, geo, objectIndex)

FillIndividual(results, config, obj, geo, objectIndex) ==
  IndividualFrom(results, 0, config, obj, geo, objectIndex)

\* DrawItem_compare_groups (renderer.hpp 78-87)
DrawItem_compare_groups(a, b) ==
  LET d1 == a.geometryIndex - b.geometryIndex
      d2 == IF d1 # 0 THEN d1 ELSE a.materialIndex - b.materialIndex
      d3 == IF d2 # 0 THEN d2 ELSE a.matrixIndex - b.matrixIndex
      d4 == IF d3 # 0 THEN d3 ELSE a.partIndex - b.partIndex
  IN  d4 < 0

\* std::sort is not stable: every ordering of the vector's items in which no
\* item compares less than one before it is a result.
RECURSIVE SortOutcomes(_)
SortOutcomes(items) ==
  IF Len(items) <= 1 THEN {items}
  ELSE
    LET x == items[Len(items)]
    IN  UNION { { SubSeq(r, 1, k) \o <<x>> \o SubSeq(r, k + 1, Len(r)) :
                    k \in { k \in 0 .. Len(r) :
                              /\ \A j \in 1 .. k : ~DrawItem_compare_groups(x, r[j])
                              /\ \A j \in k + 1 .. Len(r) : ~DrawItem_compare_groups(r[j], x) } } :
                r \in SortOutcomes(SubSeq(items, 1, Len(items) - 1)) }

\* from without its clamp
ObjectsFrom_Unclamped(maxObjects, config) == config.objectFrom

\* size_t from = min(maxObjects - 1, objectFrom): with no object the
\* unsigned maxObjects - 1 is SIZE_MAX
ObjectsFrom(maxObjects, config) ==
  IF maxObjects = 0 THEN config.objectFrom ELSE Min(maxObjects - 1, config.objectFrom)
\* maxObjects = min(maxObjects, from + objectNum)
ObjectsEnd(maxObjects, config) ==
  Min(maxObjects, ObjectsFrom(maxObjects, config) + config.objectNum)

\* the object loop from object i on
RECURSIVE FillFrom(_, _, _, _, _, _, _)
FillFrom(results, i, end, geometry, objects, config, maxCombine) ==
  IF i >= end THEN results
  ELSE
    LET obj == objects[i]
        geo == geometry[obj.geometryIndex]
    IN  FillFrom(IF maxCombine # 0
                   THEN { FillCombined(drawItems, config, obj, geo, i, maxCombine) :
                            drawItems \in results }
                   ELSE FillIndividual(results, config, obj, geo, i),
                 i + 1, end, geometry, objects, config, maxCombine)

\* the statistics with the indices counted as triangles
AddStats_CountsIndices(stats, drawItems) ==
  [drawCalls     |-> stats.drawCalls + Len(drawItems),
   drawTriangles |-> stats.drawTriangles +
                       SumRange([k \in 0 .. Len(drawItems) - 1 |-> drawItems[k + 1].range.count],
                                0, Len(drawItems))]

\* stats.drawCalls++; stats.drawTriangles += drawItems[i].range.count / 3;
AddStats(stats, drawItems) ==
  [drawCalls     |-> stats.drawCalls + Len(drawItems),
   drawTriangles |-> stats.drawTriangles +
                       SumRange([k \in 0 .. Len(drawItems) - 1 |-> drawItems[k + 1].range.count \div 3],
                                0, Len(drawItems))]

\* Renderer::fillDrawItems: the pairs <<drawItems, stats>> it can leave
fillDrawItems(drawItems, geometry, objects, config, maxCombine, stats) ==
  LET maxObjects == Size(objects)
      filled == FillFrom({drawItems}, ObjectsFrom(maxObjects, config), ObjectsEnd(maxObjects, config),
                         geometry, objects, config, maxCombine)
      sorted == IF config.sorted THEN UNION { SortOutcomes(f) : f \in filled } ELSE filled
  IN  { <<f, AddStats(stats, f)>> : f \in sorted }

-----------------------------------------------------------------------------
(* RendererVK::init (renderer_vk.cpp 283-459), Sample::initRenderer        *)
(* (renderer_vk.cpp 779-821) and the direct-mode draw.                     *)

\* maxCombine = ~0.  The value is 4294967295; it stands here as the largest
\* integer TLC represents, di.partCount being at most the part count.
maxCombine_unbounded == 2147483647

\* the switch(m_mode) of RendererVK::init
MaxCombineOf(mode, config) ==
  CASE mode = "MODE_PER_DRAW_BASEINST"      -> 0
    [] mode = "MODE_PER_TRI_ID_FS"          -> maxCombine_unbounded
    [] mode = "MODE_PER_TRI_PART_SEARCH_FS" -> config.searchBatch
    [] OTHER                                -> 0

\* instanceIndex = uint32_t(di.range.offset / sizeof(uint32_t)) / 3;
DirectIdsOffset(di) == (di.range.offset \div sizeof_uint32) \div 3

\* the lookup without the draw's base offset
DirectLookup_NoOffset(triangleIDs, prim, offset) == triangleIDs[prim]

\* int partIndex = int(triangleIDs.d[gl_PrimitiveID + int(getIdsOffset())]);
DirectLookup(triangleIDs, prim, offset) == triangleIDs[prim + offset]

\* ---- the scenes

\* materials 0 and 1 are opaque, material 2 is transparent (alpha 0.5)
FileMaterials == [m \in 0 .. 2 |-> [color3 |-> IF m = 2 THEN 5 ELSE 10]]

\* a CSF geometry: its index count is the sum of its parts' index counts
CsfGeometry(nis) ==
  [numIndexSolid |-> SumRange(nis, 0, Size(nis)),
   parts         |-> [p \in DOMAIN nis |-> [numIndexSolid |-> nis[p]]]]

\* One geometry; node 0 is an object with that geometry, node 1 carries no
\* geometry and is the transform some parts refer to.
SceneFile(nis, nodeParts) ==
  [materials  |-> FileMaterials,
   geometries |-> [g \in 0 .. 0 |-> CsfGeometry(nis)],
   nodes      |-> [n \in 0 .. 1 |->
                     IF n = 0 THEN [geometryIDX |-> 0, parts |-> nodeParts]
                     ELSE [geometryIDX |-> -1, parts |-> <<>>]]]

\* index counts of the parts of the batched geometries: empty or one triangle
HostIndexCounts == {0, 3}
\* a part's material and transform; a transparent part is inactive and its
\* transform is never looked at
NodePartChoices ==
  { [materialIDX |-> m, nodeIDX |-> x] : m \in 0 .. 1, x \in {-1, 1} }
    \cup { [materialIDX |-> 2, nodeIDX |-> -1] }

SceneFilesOf(n) ==
  { SceneFile(nis, nodeParts) :
      nis \in Arrays(n, HostIndexCounts), nodeParts \in Arrays(n, NodePartChoices) }

\* the files loaded once, and the smaller ones loaded with a clone
SceneFiles == UNION { SceneFilesOf(n) : n \in 1 .. MaxParts }
ClonedSceneFiles == UNION { SceneFilesOf(n) : n \in 1 .. MaxCloneParts }

\* One geometry drawn by two objects (nodes 0 and 2) with the same part
\* table; node 1 is the transform some parts of both objects refer to.
InstancedFile(nis, nodeParts) ==
  [materials  |-> FileMaterials,
   geometries |-> [g \in 0 .. 0 |-> CsfGeometry(nis)],
   nodes      |-> [n \in 0 .. 2 |->
                     IF n = 1 THEN [geometryIDX |-> -1, parts |-> <<>>]
                     ELSE [geometryIDX |-> 0, parts |-> nodeParts]]]

\* parts of the instanced geometry
MaxInstancedParts == 1

InstancedFiles ==
  { InstancedFile([p \in 0 .. n - 1 |-> 3],
                  [p \in 0 .. n - 1 |-> [materialIDX |-> 0, nodeIDX |-> 1]]) :
      n \in 1 .. MaxInstancedParts }

\* "we want to draw a geometry with 9 parts  a b c d e f g h i" (README.md 293-294)
ExampleParts == 9
ExampleFile ==
  SceneFile([p \in 0 .. ExampleParts - 1 |-> 3 * (p + 1)],
            [p \in 0 .. ExampleParts - 1 |-> [materialIDX |-> 0, nodeIDX |-> -1]])

\* "pct visible", in thousandths (the slider runs from 0 to 1.001)
PercentChoices == {500, 1001}

\* Config::searchBatch is a plain uint32_t; the batcher takes any value
\* (the UI keeps it in 4..32)
RendererModes ==
  { <<"MODE_PER_DRAW_BASEINST", searchBatch_default>>, <<"MODE_PER_TRI_ID_FS", searchBatch_default>> }
    \cup { <<"MODE_PER_TRI_PART_SEARCH_FS", k>> : k \in 1 .. MaxCombine }

\* a failing loadCSF that has already resized its arrays
loadCSF_ResizesFirst(scene, file, clones, loads) ==
  [status |-> loads,
   scene  |-> [m_materials      |-> file.materials,
               m_geometry       |-> IF loads THEN LoadGeometries(file, clones) ELSE <<>>,
               m_objects        |-> IF loads THEN CloneObjects(file, clones) ELSE <<>>,
               m_numObjectParts |-> IF loads THEN NumObjectParts(file) ELSE 0]]

\* bool CadScene::loadCSF(filename, clones, cloneaxis) on the scene as it
\* is: false and nothing touched if the file does not load (107-115)
loadCSF(scene, file, clones, loads) ==
  IF ~loads
    THEN [status |-> FALSE, scene |-> scene]
    ELSE [status |-> TRUE,
          scene  |-> [m_materials      |-> file.materials,
                      m_geometry       |-> LoadGeometries(file, clones),
                      m_objects        |-> CloneObjects(file, clones),
                      m_numObjectParts |-> NumObjectParts(file)]]

\* the files Sample::initScene is given, their clones, and whether
\* CSFile_loadExt succeeds and the file has CADSCENEFILE_FLAG_UNIQUENODES
SceneChoices ==
  { [file |-> f, clones |-> 0, loads |-> b] : f \in SceneFiles, b \in BOOLEAN }
    \cup { [file |-> f, clones |-> 1, loads |-> TRUE] : f \in ClonedSceneFiles }
    \cup { [file |-> f, clones |-> c, loads |-> b] :
             f \in InstancedFiles, c \in 0 .. 1, b \in BOOLEAN }
    \cup { [file |-> ExampleFile, clones |-> 0, loads |-> TRUE] }

Init ==
  /\ csf \in SceneChoices
  /\ m_geometry = <<>>
  /\ m_objects = <<>>
  /\ m_config = <<>>
  /\ m_drawItems = <<>>
  /\ m_renderStats = [drawCalls |-> 0, drawTriangles |-> 0]
  /\ FillIdle
  /\ PickIdle
  /\ UiIdle
  /\ CmdIdle
  /\ DepthIdle
  /\ MemIdle
  /\ defines = NoDefines
  /\ idsBuffer = <<>>
  /\ idsOffset = 0
  /\ windowShift = 16
  /\ gl_PrimitiveID = 0
  /\ ShaderLocalsZero
  /\ pc = "init_scene"

\* Sample::initScene -> CadScene::loadCSF
LoadCSF ==
  /\ pc = "init_scene"
  /\ LET r == loadCSF([m_materials |-> m_materials, m_geometry |-> m_geometry,
                       m_objects |-> m_objects, m_numObjectParts |-> m_numObjectParts],
                      csf.file, csf.clones, csf.loads)
     IN  /\ m_materials' = r.scene.m_materials
         /\ m_geometry' = r.scene.m_geometry
         /\ m_objects' = r.scene.m_objects
         /\ m_numObjectParts' = r.scene.m_numObjectParts
         /\ pc' = IF r.status THEN "loaded" ELSE "load_failed"
  /\ UNCHANGED <<csf, m_config, m_drawItems, m_renderStats, fillVars, pickVars, memVars, depthVars, cmdVars, uiVars,
                 shaderVars>>

\* Sample::think after "model copies" changed (renderer_vk.cpp 1069-1078),
\* up to the call of loadCSF: CadScene::unload clears geometry and objects
\* and leaves m_materials and m_numObjectParts; the file may have become
\* unreadable since.
UnloadScene ==
  /\ pc = "loaded"
  /\ \E again \in SceneChoices :
       /\ again.file = csf.file
       /\ again.clones # csf.clones
       /\ csf' = again
  /\ m_geometry' = <<>>
  /\ m_objects' = <<>>
  /\ pc' = "init_scene"
  /\ UNCHANGED <<m_config, m_drawItems, m_renderStats, fillVars, pickVars, memVars, depthVars, cmdVars, uiVars, sceneKept,
                 shaderVars>>

\* Sample::initRenderer: objectFrom = 0, objectNum = uint32_t(size * percent),
\* the statistics are reset and the new renderer fills its own (empty)
\* m_drawItems.  A later call deletes the renderer and does the same from
\* the same scene: it reaches the states the first call reaches.
InitRenderer ==
  /\ pc = "loaded"
  /\ \E ms \in RendererModes, ignoreMaterials \in BOOLEAN, sorted \in BOOLEAN,
        percent \in PercentChoices :
       LET config == [objectFrom      |-> 0,
                      objectNum       |-> (Size(m_objects) * percent) \div 1000,
                      sorted          |-> sorted,
                      ignoreMaterials |-> ignoreMaterials,
                      searchBatch     |-> ms[2]]
           maxCombine == MaxCombineOf(ms[1], config)
       IN  \E r \in fillDrawItems(<<>>, m_geometry, m_objects, config, maxCombine,
                                  [drawCalls |-> 0, drawTriangles |-> 0]) :
             /\ m_config' = [config |-> config, mode |-> ms[1], maxCombine |-> maxCombine]
             /\ m_drawItems' = r[1]
             /\ m_renderStats' = r[2]
  /\ pc' = "ready"
  /\ UNCHANGED <<csf, m_geometry, m_objects, fillVars, pickVars, memVars, depthVars, cmdVars, uiVars, sceneKept, shaderVars>>

\* One fragment of one draw in MODE_PER_TRI_ID_FS: the host attaches
\* instanceIndex to the draw, the shader looks the triangle up.
DrawDirect ==
  /\ pc = "ready"
  /\ m_config.mode = "MODE_PER_TRI_ID_FS"
  /\ \E k \in 1 .. Len(m_drawItems) :
       \E t \in 0 .. m_drawItems[k].range.count \div 3 - 1 :
         /\ drawItem' = k
         /\ idsBuffer' = m_geometry[m_drawItems[k].geometryIndex].trianglePartIdsData
         /\ idsOffset' = DirectIdsOffset(m_drawItems[k])
         /\ gl_PrimitiveID' = t
         /\ partIndex' = DirectLookup(idsBuffer', t, idsOffset')
         /\ reads' = {t + idsOffset'}
  /\ pc' = "fs_done"
  /\ UNCHANGED <<hostVars, defines, windowShift, partOffset, partCount, l, h, value, guess,
                 guessIsLow, bound, canary, begin, i_loop>>

Next ==
  \/ LoadCSF
  \/ UnloadScene
  \/ InitRenderer
  \/ DrawDirect

Spec == Init /\ [][Next]_vars

-----------------------------------------------------------------------------
(* Properties of the loader, the batcher and the direct lookup.            *)

Loaded == pc \in {"loaded", "ready", "fs_done"}
Ready  == pc \in {"ready", "fs_done"}
IndividualMode == Ready /\ m_config.maxCombine = 0
CombinedMode   == Ready /\ m_config.maxCombine > 0

\* the objects of the visible range [from', min(objectCount, from' + objectNum))
VisibleObjects ==
  LET objectCount == Size(m_objects)
      first == Min(m_config.config.objectFrom, objectCount - 1)
  IN  IF objectCount = 0 THEN {}
      ELSE first .. Min(objectCount, first + m_config.config.objectNum) - 1

GeometryOf(obj) == m_geometry[obj.geometryIndex]
IndexCount(geo, p) == geo.parts[p].indexSolid.count
IndexOffset(geo, p) == geo.parts[p].indexSolid.offset

\* the parts of geo whose index range holds the index at this byte offset
OwningParts(geo, byte) ==
  { p \in DOMAIN geo.parts :
      IndexOffset(geo, p) <= byte /\ byte < IndexOffset(geo, p) + IndexCount(geo, p) * sizeof_uint32 }

\* C6: in direct mode, for every DrawItem of the combined-unbounded batch
\* and every triangle t of the draw, trianglePartId[t + (range.offset/4)/3]
\* is the geometry part whose index range holds that triangle.
C6_DirectLookupFindsOwner ==
  pc = "fs_done" =>
    LET di == m_drawItems[drawItem]
    IN  /\ m_config.maxCombine = maxCombine_unbounded
        /\ idsOffset = (di.range.offset \div 4) \div 3
        /\ OwningParts(m_geometry[di.geometryIndex],
                       di.range.offset + 3 * gl_PrimitiveID * sizeof_uint32) = {partIndex}

\* a draw that starts after part 0 and folds several parts, shaded at a
\* triangle of a part that is not the draw's first
C6_Witness ==
  /\ pc = "fs_done"
  /\ m_drawItems[drawItem].partIndex > 0
  /\ m_drawItems[drawItem].partCount >= 2
  /\ gl_PrimitiveID > 0
  /\ partIndex > m_drawItems[drawItem].partIndex

\* C7: after loading, for every geometry the part triangle counts sum to
\* numIndexSolid / 3, and partTriOffset[p] is the sum of partTriCount[0..p),
\* so partTriOffset starts at 0 and never decreases.
C7_PrefixSums ==
  Loaded =>
    \A g \in DOMAIN m_geometry :
      LET geo     == m_geometry[g]
          csfgeom == csf.file.geometries[g % Size(csf.file.geometries)]
          n       == Size(geo.parts)
      IN  /\ SumRange(geo.partTriCountsData, 0, n) = csfgeom.numIndexSolid \div 3
          /\ \A p \in 0 .. n - 1 :
               /\ geo.partTriCountsData[p] = csfgeom.parts[p].numIndexSolid \div 3
               /\ geo.partTriOffsetsData[p] = SumRange(geo.partTriCountsData, 0, p)
          /\ geo.partTriOffsetsData[0] = 0
          /\ \A p \in 1 .. n - 1 : geo.partTriOffsetsData[p - 1] <= geo.partTriOffsetsData[p]

\* the README's geometry of 9 parts (of 1 to 9 triangles) loaded: its last
\* part starts at triangle 36
C7_Witness ==
  /\ Loaded
  /\ \E g \in DOMAIN m_geometry :
       /\ Size(m_geometry[g].parts) = ExampleParts
       /\ m_geometry[g].partTriOffsetsData[ExampleParts - 1] = 36

\* the DrawItems of part p of object i
ItemsFor(i, p) ==
  { k \in 1 .. Len(m_drawItems) : m_drawItems[k].objectIndex = i /\ m_drawItems[k].partIndex = p }

\* the DrawItem carries exactly part p of the object
CarriesPart(di, obj, p) ==
  /\ di.geometryIndex = obj.geometryIndex
  /\ di.range = GeometryOf(obj).parts[p].indexSolid
  /\ di.partIndex = p
  /\ di.materialIndex = obj.parts[p].materialIndex
  /\ di.matrixIndex = obj.parts[p].matrixIndex
  /\ di.objectOffset = obj.uniquePartOffset

\* C8 as stated: in individual mode every active part of every visible
\* object gets exactly one DrawItem carrying it, an inactive part none.
C8_OneItemPerActivePart ==
  IndividualMode =>
    /\ \A k \in 1 .. Len(m_drawItems) : m_drawItems[k].objectIndex \in VisibleObjects
    /\ \A i \in VisibleObjects : \A p \in DOMAIN m_objects[i].parts :
         IF m_objects[i].parts[p].active = 1
           THEN /\ Cardinality(ItemsFor(i, p)) = 1
                /\ \A k \in ItemsFor(i, p) : CarriesPart(m_drawItems[k], m_objects[i], p)
           ELSE ItemsFor(i, p) = {}

\* C8 as amended: in individual mode every active part with a non-zero index
\* count gets exactly one DrawItem carrying it; an inactive part and a part
\* without indices get none; 9 active non-empty parts give 9 DrawItems.
C8_OneItemPerActiveNonEmptyPart ==
  IndividualMode =>
    /\ \A k \in 1 .. Len(m_drawItems) : m_drawItems[k].objectIndex \in VisibleObjects
    /\ \A i \in VisibleObjects : \A p \in DOMAIN m_objects[i].parts :
         IF m_objects[i].parts[p].active = 1 /\ IndexCount(GeometryOf(m_objects[i]), p) # 0
           THEN /\ Cardinality(ItemsFor(i, p)) = 1
                /\ \A k \in ItemsFor(i, p) : CarriesPart(m_drawItems[k], m_objects[i], p)
           ELSE ItemsFor(i, p) = {}
    /\ (csf.file = ExampleFile /\ VisibleObjects # {}) => Len(m_drawItems) = ExampleParts

\* an object drawn individually that has a part with a DrawItem, an active
\* part without indices and an inactive part with indices
C8_Witness ==
  /\ IndividualMode
  /\ \E i \in VisibleObjects :
       \E p, q, r \in DOMAIN m_objects[i].parts :
         /\ ItemsFor(i, p) # {}
         /\ m_objects[i].parts[q].active = 1 /\ IndexCount(GeometryOf(m_objects[i]), q) = 0
         /\ m_objects[i].parts[r].active = 0 /\ IndexCount(GeometryOf(m_objects[i]), r) # 0

\* all parts active, non-empty, index-contiguous, of one material and one transform
UniformObject(obj) ==
  \A p \in DOMAIN obj.parts :
    /\ obj.parts[p].active = 1
    /\ IndexCount(GeometryOf(obj), p) # 0
    /\ obj.parts[p].materialIndex = obj.parts[0].materialIndex
    /\ obj.parts[p].matrixIndex = obj.parts[0].matrixIndex
    /\ p > 0 => IndexOffset(GeometryOf(obj), p) =
                  IndexOffset(GeometryOf(obj), p - 1) + IndexCount(GeometryOf(obj), p - 1) * sizeof_uint32

ItemsOfObject(i) == SelectSeq(m_drawItems, LAMBDA di : di.objectIndex = i)

\* ceil(n / k) for n >= 1 (k may be the unbounded maxCombine)
CeilDiv(n, k) == IF k >= n THEN 1 ELSE (n + k - 1) \div k

\* C9: combined mode with maxPartsPerDraw = k > 0 on an object whose n parts
\* are all active, non-empty, contiguous and of one material and transform
\* emits ceil(n/k) DrawItems, the j-th covering parts [j*k, min((j+1)*k, n));
\* 9 parts and k = 4 give {0..3},{4..7},{8}; an unbounded k gives one.
C9_CombinedWindows ==
  CombinedMode =>
    \A i \in VisibleObjects :
      UniformObject(m_objects[i]) =>
        LET items == ItemsOfObject(i)
            geo   == GeometryOf(m_objects[i])
            n     == Size(m_objects[i].parts)
            k     == m_config.maxCombine
        IN  /\ Len(items) = CeilDiv(n, k)
            /\ \A j \in 0 .. Len(items) - 1 :
                 LET first == IF j = 0 THEN 0 ELSE j * k
                     count == Min(k, n - first)
                 IN  /\ items[j + 1].partIndex = first
                     /\ items[j + 1].partCount = count
                     /\ items[j + 1].range.offset = IndexOffset(geo, first)
                     /\ items[j + 1].range.count =
                          SumRange([p \in DOMAIN geo.parts |-> IndexCount(geo, p)], first, first + count)

\* the README's geometry of 9 parts batched with a window of 4
C9_Witness ==
  /\ CombinedMode
  /\ csf.file = ExampleFile
  /\ m_config.maxCombine = 4
  /\ Len(m_drawItems) = 3
  /\ m_drawItems[1].partIndex = 0 /\ m_drawItems[1].partCount = 4
  /\ m_drawItems[2].partIndex = 4 /\ m_drawItems[2].partCount = 4
  /\ m_drawItems[3].partIndex = 8 /\ m_drawItems[3].partCount = 1

\* the first cnt active parts of obj from part p on, in order
RECURSIVE ActiveFrom(_, _, _)
ActiveFrom(obj, p, cnt) ==
  IF cnt <= 0 \/ p >= Size(obj.parts) THEN <<>>
  ELSE IF obj.parts[p].active = 0 THEN ActiveFrom(obj, p + 1, cnt)
  ELSE <<p>> \o ActiveFrom(obj, p + 1, cnt - 1)

\* the parts a combined DrawItem folds: it starts at partIndex and takes
\* partCount active parts
FoldedParts(di) == ActiveFrom(m_objects[di.objectIndex], di.partIndex, di.partCount)

\* C10: the parts folded into one combined DrawItem all have one transform
\* index, all have one material index unless ignoreMaterials is set, and each
\* starts in the index buffer exactly where the ones folded before it end.
C10_NeverFoldsIncompatibleParts ==
  CombinedMode =>
    \A k \in 1 .. Len(m_drawItems) :
      LET di  == m_drawItems[k]
          obj == m_objects[di.objectIndex]
          geo == GeometryOf(obj)
          fp  == FoldedParts(di)
          cnt == [a \in 0 .. Len(fp) - 1 |-> IndexCount(geo, fp[a + 1])]
      IN  /\ Len(fp) = di.partCount
          /\ di.range.count = SumRange(cnt, 0, Len(fp))
          /\ \A a, b \in 1 .. Len(fp) :
               /\ obj.parts[fp[a]].matrixIndex = obj.parts[fp[b]].matrixIndex
               /\ ~m_config.config.ignoreMaterials =>
                    obj.parts[fp[a]].materialIndex = obj.parts[fp[b]].materialIndex
          /\ \A a \in 1 .. Len(fp) :
               IndexOffset(geo, fp[a]) = di.range.offset + SumRange(cnt, 0, a - 1) * sizeof_uint32

\* an object of three active, non-empty parts of one transform, the first two
\* of one material and the third of another, batched without a part limit:
\* two DrawItems, of two parts and of one
C10_Witness ==
  /\ CombinedMode
  /\ m_config.maxCombine = maxCombine_unbounded
  /\ ~m_config.config.ignoreMaterials
  /\ Len(m_drawItems) = 2
  /\ m_drawItems[1].partCount = 2 /\ m_drawItems[2].partCount = 1
  /\ m_objects[0].parts[0].materialIndex # m_objects[0].parts[2].materialIndex
  /\ m_objects[0].parts[0].matrixIndex = m_objects[0].parts[2].matrixIndex

-----------------------------------------------------------------------------
(* Sorting (renderer.cpp 136-139).                                         *)

\* the items in ascending key order, those of equal key in their order in
\* the argument
RECURSIVE StableSorted(_)
StableSorted(items) ==
  IF Len(items) <= 1 THEN items
  ELSE
    LET x == items[Len(items)]
        r == StableSorted(SubSeq(items, 1, Len(items) - 1))
        k == Cardinality({ j \in 1 .. Len(r) : ~DrawItem_compare_groups(x, r[j]) })
    IN  SubSeq(r, 1, k) \o <<x>> \o SubSeq(r, k + 1, Len(r))

\* what fillDrawItems can leave for this scene and configuration
BatchOutcomes(config) ==
  { r[1] : r \in fillDrawItems(<<>>, m_geometry, m_objects, config, m_config.maxCombine,
                               [drawCalls |-> 0, drawTriangles |-> 0]) }

\* C11: with sorting enabled the DrawItems are a stable reordering of a
\* sequence produced with sorting disabled (same items, ascending key, equal
\* keys in their original order), and batching the same scene with the same
\* policy again can only give the same sequence.
C11_SortIsStableReordering ==
  (pc = "ready" /\ m_config.config.sorted) =>
    /\ \E unsorted \in BatchOutcomes([m_config.config EXCEPT !.sorted = FALSE]) :
         m_drawItems = StableSorted(unsorted)
    /\ \A again \in BatchOutcomes(m_config.config) :
         \A k \in 1 .. Len(again) :
           /\ Len(again) = Len(m_drawItems)
           /\ again[k].objectIndex = m_drawItems[k].objectIndex
           /\ again[k].partIndex = m_drawItems[k].partIndex

-----------------------------------------------------------------------------
(* Renderer::fillDrawItems object by object (renderer.cpp 115-146), on a   *)
(* scene of objectCount objects and any (objectFrom, objectNum).  size_t   *)
(* has 64 bits: from + objectNum does not wrap.                            *)

\* objects of the scene
MaxObjects == 3

\* the scene: one geometry of one triangle, drawn by every object
RangeGeometry == LoadGeometries(SceneFile([p \in 0 .. 0 |-> 3], <<>>), 0)
RangeObjects(objectCount) ==
  [k \in 0 .. objectCount - 1 |->
     [matrixIndex |-> k, geometryIndex |-> 0, uniquePartOffset |-> k,
      parts |-> [p \in 0 .. 0 |-> [active |-> 1, matrixIndex |-> k, materialIndex |-> 0]]]]

InitRange ==
  /\ csf = <<>>
  /\ m_geometry = RangeGeometry
  /\ \E objectCount \in 0 .. MaxObjects : m_objects = RangeObjects(objectCount)
  /\ \E objectFrom \in 0 .. MaxObjects + 1, objectNum \in 0 .. MaxObjects + 1, sorted \in BOOLEAN :
       m_config = [config |-> [objectFrom |-> objectFrom, objectNum |-> objectNum,
                               sorted |-> sorted, ignoreMaterials |-> FALSE,
                               searchBatch |-> searchBatch_default],
                   mode |-> "MODE_PER_TRI_ID_FS", maxCombine |-> maxCombine_unbounded]
  /\ m_drawItems = <<>>
  /\ m_renderStats = [drawCalls |-> 0, drawTriangles |-> 0]
  /\ FillIdle
  /\ PickIdle
  /\ UiIdle
  /\ CmdIdle
  /\ DepthIdle
  /\ MemIdle
  /\ defines = NoDefines
  /\ idsBuffer = <<>>
  /\ idsOffset = 0
  /\ windowShift = 16
  /\ gl_PrimitiveID = 0
  /\ ShaderLocalsZero
  /\ pc = "fill_start"

\* lines 117-119
FillBegin ==
  /\ pc = "fill_start"
  /\ fill_from' = ObjectsFrom(Size(m_objects), m_config.config)
  /\ fill_maxObjects' = ObjectsEnd(Size(m_objects), m_config.config)
  /\ fill_i' = fill_from'
  /\ pc' = "fill_loop"
  /\ UNCHANGED <<csf, m_geometry, m_objects, m_config, m_drawItems, m_renderStats,
                 fill_processed, pickVars, memVars, depthVars, cmdVars, uiVars, sceneKept, shaderVars>>

\* one turn of the object loop, lines 121-134
FillObject ==
  /\ pc = "fill_loop"
  /\ fill_i < fill_maxObjects
  /\ fill_processed' = fill_processed \cup {fill_i}
  /\ m_drawItems' \in FillFrom({m_drawItems}, fill_i, fill_i + 1, m_geometry, m_objects,
                               m_config.config, m_config.maxCombine)
  /\ fill_i' = fill_i + 1
  /\ UNCHANGED <<csf, m_geometry, m_objects, m_config, m_renderStats,
                 fill_from, fill_maxObjects, pc, pickVars, memVars, depthVars, cmdVars, uiVars, sceneKept, shaderVars>>

\* the loop's exit, the sort and the statistics, lines 136-145
FillFinish ==
  /\ pc = "fill_loop"
  /\ fill_i >= fill_maxObjects
  /\ m_drawItems' \in (IF m_config.config.sorted THEN SortOutcomes(m_drawItems) ELSE {m_drawItems})
  /\ m_renderStats' = AddStats(m_renderStats, m_drawItems')
  /\ pc' = "fill_done"
  /\ UNCHANGED <<csf, m_geometry, m_objects, m_config, fillVars, pickVars, memVars, depthVars, cmdVars, uiVars, sceneKept, shaderVars>>

NextRange ==
  \/ FillBegin
  \/ FillObject
  \/ FillFinish

SpecRange == InitRange /\ [][NextRange]_vars

\* C12: with objectCount >= 1 the objects processed are exactly those of
\* [from', min(objectCount, from' + objectNum)), from' = min(objectFrom,
\* objectCount - 1); no index >= objectCount is read; with no object none is
\* processed.
C12_VisibleRangeClamped ==
  LET objectCount == Size(m_objects)
      first == Min(m_config.config.objectFrom, objectCount - 1)
  IN  /\ fill_processed \subseteq 0 .. objectCount - 1
      /\ pc = "fill_done" =>
           fill_processed =
             IF objectCount = 0 THEN {}
             ELSE first .. Min(objectCount, first + m_config.config.objectNum) - 1

\* objectFrom beyond the last object and objectNum > 0: the last object is
\* the one processed
C12_Witness ==
  /\ pc = "fill_done"
  /\ Size(m_objects) >= 2
  /\ m_config.config.objectFrom > Size(m_objects) - 1
  /\ fill_processed = {Size(m_objects) - 1}
  /\ Len(m_drawItems) = 1

-----------------------------------------------------------------------------
(* Picking: RendererVK::draw (renderer_vk.cpp 489-524) and the end of      *)
(* shading() (unnamed/part_000 56-78).  The 32-bit words of the 64-bit     *)
(* RayData::mouseHit are scaled to WordBits bits.  A depth is drawn as its *)
(* bit pattern: floatBitsToUint keeps the order of the depths of [0, 1],   *)
(* and none of them has all bits set.                                      *)

\* bits of one word of mouseHit (scaled from 32)
WordBits == 4
sizeof_SceneData == 272
sizeof_RayData == 8

\* parts of one object of the picked scene, depth bit patterns, fragment
\* invocations of a frame, frames
MaxPickParts == 2
MaxDepth == 1
MaxFragments == 2
MaxFrames == 2

WordSize == 2 ^ WordBits

\* packUint2x32(uvec2(x, y)): x is the low word
packUint2x32_HighFirst(x, y) == x * WordSize + y
packUint2x32(x, y) == y * WordSize + x
\* unpackUint2x32(v).x and .y
unpackUint2x32_x(v) == v % WordSize
unpackUint2x32_y(v) == v \div WordSize

\* the 64-bit value vkCmdFillBuffer(..., ~0) leaves
AllOnes == packUint2x32(WordSize - 1, WordSize - 1)

\* atomicMin(mem, data) on unsigned 64-bit values
atomicMin(mem, data) == IF data < mem THEN data ELSE mem

\* a transfer of size bytes to dstOffset: the members of the buffer that lie
\* in the range take the data's
BufferWrite(buf, dstOffset, size, data) ==
  [o \in DOMAIN buf |->
     IF dstOffset <= o /\ o < dstOffset + size THEN data[o - dstOffset] ELSE buf[o]]

\* vkCmdFillBuffer(ray.buffer, 0, sizeof(RayData), ~0) skipped
vkCmdFillBuffer_Skipped(buf, dstOffset, size, data) == buf
\* vkCmdFillBuffer(buffer, dstOffset, size, data)
vkCmdFillBuffer(buf, dstOffset, size, data) ==
  BufferWrite(buf, dstOffset, size, [o \in 0 .. size - 1 |-> data])

\* scene.rayLast of the bound uniform buffer, and ray.mouseHit
rayLast_mouseHit == view_buffer[sizeof_SceneData]
ray_mouseHit == ray_buffer[0]

\* the test of line 75 against the depth word
TakesHighlight_DepthWord(id, last) == id = unpackUint2x32_y(last)
\* partIndex == unpackUint2x32(rayLast.mouseHit).x
TakesHighlight(id, last) == id = unpackUint2x32_x(last)

\* partIndex += PUSH.uniquePartOffset, part_000 line 26
GlobalPartId(f) == f.partIndex + f.uniquePartOffset

\* the invocations a frame's draws can produce: an object of MaxPickParts
\* parts and a second object of one part; an invocation away from the mouse
\* has its depth left out (0)
PickedParts ==
  [partIndex : 0 .. MaxPickParts - 1, uniquePartOffset : {0}]
  \cup [partIndex : {0}, uniquePartOffset : {MaxPickParts}]
FragmentChoices ==
  { [partIndex |-> p.partIndex, uniquePartOffset |-> p.uniquePartOffset,
     depthBits |-> d, atMouse |-> TRUE] : p \in PickedParts, d \in 0 .. MaxDepth }
  \cup { [partIndex |-> p.partIndex, uniquePartOffset |-> p.uniquePartOffset,
           depthBits |-> 0, atMouse |-> FALSE] : p \in PickedParts }

\* depth 0.2 on part 5 and depth 0.1 on part 7, both under the mouse
ExampleFragments ==
  { [partIndex |-> 1, uniquePartOffset |-> 4, depthBits |-> 2, atMouse |-> TRUE],
    [partIndex |-> 3, uniquePartOffset |-> 4, depthBits |-> 1, atMouse |-> TRUE] }

\* the subsets of S of at most k elements
RECURSIVE SubsetsUpTo(_, _)
SubsetsUpTo(S, k) ==
  IF k = 0 THEN {{}}
  ELSE LET smaller == SubsetsUpTo(S, k - 1)
       IN  smaller \cup { T \cup {x} : T \in smaller, x \in S }

FrameFragments == SubsetsUpTo(FragmentChoices, MaxFragments) \cup {ExampleFragments}

\* what the buffers hold before the first frame: nothing in src/ writes them
UninitHits == {0, packUint2x32(1, 0), AllOnes}

InitPick ==
  /\ csf = <<>> /\ m_geometry = <<>> /\ m_objects = <<>>
  /\ m_config = <<>> /\ m_drawItems = <<>>
  /\ m_renderStats = [drawCalls |-> 0, drawTriangles |-> 0]
  /\ FillIdle
  /\ UiIdle
  /\ CmdIdle
  /\ DepthIdle
  /\ MemIdle
  /\ \E last \in UninitHits, hit \in UninitHits :
       /\ view_buffer = [o \in {0, sizeof_SceneData} |-> IF o = 0 THEN [frame |-> 0] ELSE last]
       /\ ray_buffer = [o \in {0} |-> hit]
  /\ frame = 0
  /\ pk_fragments = {} /\ pk_pending = {} /\ pk_written = {} /\ pk_highlighted = {}
  /\ pk_snapshot = {}
  /\ defines = NoDefines
  /\ idsBuffer = <<>>
  /\ idsOffset = 0
  /\ windowShift = 16
  /\ gl_PrimitiveID = 0
  /\ ShaderLocalsZero
  /\ pc = "pk_upload"

\* the order the queue completes a frame's commands in: the transfers, then
\* (res->cmdPipelineBarrier) the render pass, then (barrier of lines 510-514)
\* the copy, and the next frame's commands after it
FrameSteps == <<"pk_upload", "pk_reset", "pk_draw">>
StepAfter(step) ==
  LET k == CHOOSE j \in 1 .. Len(FrameSteps) : FrameSteps[j] = step
  IN  FrameSteps[(k % Len(FrameSteps)) + 1]

pickFixed == <<csf, m_geometry, m_objects, m_config, m_drawItems, m_renderStats, fillVars,
               memVars, depthVars, cmdVars, uiVars, sceneKept, shaderVars>>

\* vkCmdUpdateBuffer(view.buffer, 0, sizeof(SceneData), &sceneUbo), line 495;
\* the frame's draws and mouse position decide its invocations
PkUpload ==
  /\ pc = "pk_upload"
  /\ frame < MaxFrames
  /\ view_buffer' = BufferWrite(view_buffer, 0, sizeof_SceneData,
                                [o \in {0} |-> [frame |-> frame + 1]])
  /\ \E F \in FrameFragments : pk_fragments' = F /\ pk_pending' = F
  /\ pk_written' = {}
  /\ pk_highlighted' = {}
  /\ pc' = StepAfter(pc)
  /\ UNCHANGED <<ray_buffer, frame, pk_snapshot, pickFixed>>

\* vkCmdFillBuffer(ray.buffer, 0, sizeof(RayData), ~0) and the barrier, 497-499
PkReset ==
  /\ pc = "pk_reset"
  /\ ray_buffer' = vkCmdFillBuffer(ray_buffer, 0, sizeof_RayData, AllOnes)
  /\ pc' = StepAfter(pc)
  /\ UNCHANGED <<view_buffer, frame, pk_fragments, pk_pending, pk_written, pk_highlighted,
                 pk_snapshot, pickFixed>>

\* one fragment invocation, part_000 lines 61-78
PkFragment ==
  /\ pc = "pk_draw"
  /\ \E f \in pk_pending :
       LET hit == packUint2x32(GlobalPartId(f), f.depthBits)
       IN  /\ pk_pending' = pk_pending \ {f}
           /\ ray_buffer' = IF f.atMouse
                              THEN [ray_buffer EXCEPT ![0] = atomicMin(ray_mouseHit, hit)]
                              ELSE ray_buffer
           /\ pk_written' = IF f.atMouse THEN pk_written \cup {hit} ELSE pk_written
           /\ pk_highlighted' = IF TakesHighlight(GlobalPartId(f), rayLast_mouseHit)
                                  THEN pk_highlighted \cup {f}
                                  ELSE pk_highlighted
  /\ UNCHANGED <<view_buffer, frame, pk_fragments, pk_snapshot, pc, pickFixed>>

\* the render pass has ended: barrier and vkCmdCopyBuffer, lines 510-520
PkSnapshot ==
  /\ pc = "pk_draw"
  /\ pk_pending = {}
  /\ view_buffer' = BufferWrite(view_buffer, sizeof_SceneData, sizeof_RayData, ray_buffer)
  /\ pk_snapshot' = {ray_mouseHit}
  /\ frame' = frame + 1
  /\ pc' = StepAfter(pc)
  /\ UNCHANGED <<ray_buffer, pk_fragments, pk_pending, pk_written, pk_highlighted, pickFixed>>

NextPick ==
  \/ PkUpload
  \/ PkReset
  \/ PkFragment
  \/ PkSnapshot

SpecPick == InitPick /\ [][NextPick]_vars

\* the invocations of the frame under the mouse, and the values they write
MouseFragments == { f \in pk_fragments : f.atMouse }
HitOf(f) == packUint2x32(GlobalPartId(f), f.depthBits)
MinHit(written) == SetMin(written \cup {AllOnes})

\* C13: when every invocation of the frame has run, in whatever order, the
\* register decodes to the invocation under the mouse with the smallest
\* depth, the smallest id among equal depths; depth 0.2 on part 5 and depth
\* 0.1 on part 7 leave id 7.
C13_RegisterHoldsNearest ==
  (pc = "pk_draw" /\ pk_pending = {} /\ MouseFragments # {}) =>
    /\ \E f \in MouseFragments :
         /\ unpackUint2x32_y(ray_mouseHit) = f.depthBits
         /\ unpackUint2x32_x(ray_mouseHit) = GlobalPartId(f)
         /\ \A g \in MouseFragments :
              \/ f.depthBits < g.depthBits
              \/ f.depthBits = g.depthBits /\ GlobalPartId(f) <= GlobalPartId(g)
    /\ pk_fragments = ExampleFragments => unpackUint2x32_x(ray_mouseHit) = 7

C13_Witness ==
  /\ pc = "pk_draw" /\ pk_pending = {}
  /\ pk_fragments = ExampleFragments
  /\ unpackUint2x32_x(ray_mouseHit) = 7
  /\ unpackUint2x32_y(ray_mouseHit) = 1

\* C14: during the draws the register is the minimum of all-ones and the
\* values this frame's invocations have written so far (the reset came
\* first, nothing of an earlier frame is left); the copy happens when all of
\* them have run and before the next frame's upload and reset, so the slot
\* then holds the minimum over exactly this frame's writes.
C14_ResetAccumulateSnapshot ==
  /\ pc = "pk_draw" =>
       /\ ray_mouseHit = MinHit(pk_written)
       /\ pk_written = { HitOf(f) : f \in MouseFragments \ pk_pending }
  /\ (pc = "pk_upload" /\ frame > 0) =>
       /\ pk_pending = {}
       /\ pk_written = { HitOf(f) : f \in MouseFragments }
       /\ rayLast_mouseHit = MinHit(pk_written)

\* the second frame had nothing under the mouse and its snapshot is all-ones,
\* although the first frame's snapshot named a part (one of the second
\* frame's invocations was highlighted)
C14_Witness ==
  /\ pc = "pk_upload" /\ frame = 2
  /\ pk_written = {}
  /\ rayLast_mouseHit = AllOnes
  /\ pk_highlighted # {}

\* C15: from the second frame on, the invocations that took the highlight
\* branch are exactly those whose partIndex + uniquePartOffset is the id of
\* the last snapshot; the slot holds that snapshot through the upload, the
\* reset and the draws; an all-ones snapshot highlights no part.
C15_HighlightFollowsSnapshot ==
  /\ \A snapshot \in pk_snapshot : rayLast_mouseHit = snapshot
  /\ (pc = "pk_draw" /\ frame >= 1) =>
       /\ pk_highlighted =
            { f \in pk_fragments \ pk_pending :
                \E snapshot \in pk_snapshot :
                  f.partIndex + f.uniquePartOffset = unpackUint2x32_x(snapshot) }
       /\ pk_snapshot = {AllOnes} =>
            \A f \in pk_fragments \ pk_pending :
              GlobalPartId(f) < WordSize - 1 => f \notin pk_highlighted

C15_Witness ==
  /\ pc = "pk_draw" /\ frame = 1 /\ pk_pending = {}
  /\ pk_highlighted # {}
  /\ pk_highlighted # pk_fragments
  /\ ray_mouseHit \notin pk_snapshot

-----------------------------------------------------------------------------
(* The scene after loadCSF: global part identifiers.                       *)

\* the objects of the file itself, before the clones
NumOriginalObjects == Size(m_objects) \div (csf.clones + 1)
PartsBefore(k) == SumRange([j \in 0 .. k - 1 |-> Size(m_objects[j].parts)], 0, k)

\* C16: after loadCSF, with or without clones, uniquePartOffset + partIndex
\* differs for any two distinct (object, partIndex) pairs; an original
\* object's uniquePartOffset is the number of parts of the objects before it,
\* a clone's is its original's plus cloneNumber times the parts of all
\* original objects.
C16_GlobalPartIdsUnique ==
  Loaded =>
    /\ \A a \in DOMAIN m_objects, b \in DOMAIN m_objects :
         \A p \in DOMAIN m_objects[a].parts, q \in DOMAIN m_objects[b].parts :
           <<a, p>> # <<b, q>> =>
             m_objects[a].uniquePartOffset + p # m_objects[b].uniquePartOffset + q
    /\ \A k \in DOMAIN m_objects :
         m_objects[k].uniquePartOffset =
           IF k < NumOriginalObjects
             THEN PartsBefore(k)
             ELSE m_objects[k % NumOriginalObjects].uniquePartOffset
                    + (k \div NumOriginalObjects) * PartsBefore(NumOriginalObjects)

\* two objects of one geometry and their clones
C16_Witness ==
  /\ Loaded
  /\ csf.clones = 1
  /\ Size(m_objects) = 4
  /\ \A k \in DOMAIN m_objects : Size(m_objects[k].parts) >= 1
  /\ m_objects[3].uniquePartOffset = 3 * Size(m_objects[0].parts)

-----------------------------------------------------------------------------
(* The window a search draw carries: RendererVK::fillCmdBuffer            *)
(* (renderer_vk.cpp 253-275) encodes it into instanceIndex, the fragment   *)
(* shader decodes it (cadscene_vk.cpp 323-324, drawid_primid.frag.glsl     *)
(* 92-93).                                                                 *)

\* a | b on non-negative integers
RECURSIVE BitOr(_, _)
BitOr(a, b) ==
  IF a = 0 THEN b
  ELSE IF b = 0 THEN a
  ELSE (IF a % 2 = 1 \/ b % 2 = 1 THEN 1 ELSE 0) + 2 * BitOr(a \div 2, b \div 2)

\* x << n kept to 32 bits
ShiftLeft32(x, n) == (x % (2 ^ (32 - n))) * (2 ^ n)

\* the switch on m_mode, lines 253-275
instanceIndexOf(mode, di) ==
  CASE mode = "MODE_PER_DRAW_BASEINST"      -> di.partIndex
    [] mode = "MODE_PER_TRI_ID_FS"          -> DirectIdsOffset(di)
    [] mode = "MODE_PER_TRI_PART_SEARCH_FS" -> BitOr(di.partCount, ShiftLeft32(di.partIndex, 8))
    [] OTHER                                -> 0

\* first parts and part counts of the combined items of large geometries;
\* the "search batch" field keeps partCount within 4 .. 32 (renderer_vk.cpp
\* 956), a geometry's part count has no limit.  (The first parts are chosen
\* so that the 32-bit instanceIndex stays below 2^31.)
WindowPartIndices == {0, 1, 255, 256, 65535, 65536, 8388607, 16777216}
WindowPartCounts == {1, 4, 16, 32}

InitWindow ==
  /\ csf = <<>> /\ m_geometry = <<>> /\ m_objects = <<>>
  /\ \E batch \in {4, 16, 32} :
       m_config = [config |-> [objectFrom |-> 0, objectNum |-> 1, sorted |-> FALSE,
                               ignoreMaterials |-> FALSE, searchBatch |-> batch],
                   mode |-> "MODE_PER_TRI_PART_SEARCH_FS", maxCombine |-> batch]
  /\ \E first \in WindowPartIndices, count \in WindowPartCounts :
       /\ count <= m_config.maxCombine
       /\ m_drawItems = << [materialIndex |-> 0, geometryIndex |-> 0, matrixIndex |-> 0,
                            partIndex |-> first, objectIndex |-> 0, objectOffset |-> 0,
                            partCount |-> count,
                            range |-> [offset |-> 0, count |-> 3 * count]] >>
  /\ m_renderStats = [drawCalls |-> 1, drawTriangles |-> m_drawItems[1].partCount]
  /\ FillIdle
  /\ PickIdle
  /\ UiIdle
  /\ CmdIdle
  /\ DepthIdle
  /\ MemIdle
  /\ defines = [NoDefines EXCEPT !.SEARCH_COUNT = m_config.config.searchBatch]
  /\ idsBuffer = <<>>
  /\ idsOffset = 0
  /\ windowShift \in {8, 16}
  /\ gl_PrimitiveID = 0
  /\ ShaderLocalsZero
  /\ pc = "wd_host"

\* fillCmdBuffer: vkCmdDrawIndexed(..., instanceIndex) of one item
WdDraw ==
  /\ pc = "wd_host"
  /\ \E k \in 1 .. Len(m_drawItems) :
       /\ drawItem' = k
       /\ idsOffset' = instanceIndexOf(m_config.mode, m_drawItems[k])
  /\ pc' = "wd_drawn"
  /\ UNCHANGED <<hostVars, defines, idsBuffer, windowShift, gl_PrimitiveID, partOffset,
                 partCount, l, h, value, guess, guessIsLow, bound, canary, begin, i_loop,
                 partIndex, reads>>

\* the shader's first two statements
WdDecode ==
  /\ pc = "wd_drawn"
  /\ partOffset' = WindowOffset(idsOffset, windowShift)
  /\ partCount' = WindowCount(idsOffset, windowShift)
  /\ pc' = "wd_decoded"
  /\ UNCHANGED <<hostVars, shaderIn, l, h, value, guess, guessIsLow, bound, canary, begin,
                 i_loop, partIndex, reads>>

NextWindow ==
  \/ WdDraw
  \/ WdDecode

SpecWindow == InitWindow /\ [][NextWindow]_vars

\* C17: for an item whose partCount and partIndex are below 2^16 the value
\* attached to the draw is partCount | (partIndex << 16) (low half partCount,
\* high half partIndex), and the decoding v >> 16, v & 0xFFFF gives back the
\* item's partIndex and partCount.
C17_WindowRoundTrip ==
  (pc \in {"wd_drawn", "wd_decoded"}
     /\ m_drawItems[drawItem].partCount < 65536 /\ m_drawItems[drawItem].partIndex < 65536) =>
    /\ idsOffset % 65536 = m_drawItems[drawItem].partCount
    /\ idsOffset \div 65536 = m_drawItems[drawItem].partIndex
    /\ (pc = "wd_decoded" /\ windowShift = 16) =>
         /\ partOffset = m_drawItems[drawItem].partIndex
         /\ partCount = m_drawItems[drawItem].partCount

\* C18: nothing else being able to stop it, a draw that was submitted decodes
\* to its item's partIndex and partCount; taken with the decoder whose field
\* widths are the host's (>> 8, & 0xFF).
C18_NoTruncatedWindowSubmitted ==
  (pc = "wd_decoded" /\ windowShift = 8) =>
    /\ partOffset = m_drawItems[drawItem].partIndex
    /\ partCount = m_drawItems[drawItem].partCount

-----------------------------------------------------------------------------
(* The search settings: Sample::processUI (renderer_vk.cpp 950-966) and    *)
(* the re-initialisation of the renderer in Sample::think (1081-1090).     *)
(* Nothing but the UI writes globalNaryN and globalNaryMin.                *)

\* values typed into "N-ary N" (2 .. MaxNaryInput) and "N-ary fallback at"
MaxNaryInput == 17
NaryInputs == 2 .. MaxNaryInput
FallbackInputs == {0, 4, 8, 12, 32, 64, 20000}

\* the widget wrote the typed value, if any, but left the field unclamped
\* when nothing was typed
InputIntClamped_OnlyWhenEdited(v, typed, lo, hi) ==
  IF typed = {} THEN v ELSE Max(lo, Min(hi, CHOOSE x \in typed : TRUE))

\* ImGuiH::InputIntClamped(label, &v, lo, hi, ...): the field takes the
\* typed value, if any, and is clamped to lo .. hi on every pass
InputIntClamped(v, typed, lo, hi) ==
  Max(lo, Min(hi, IF typed = {} THEN v ELSE CHOOSE x \in typed : TRUE))

\* #if GLOBAL_NARY_N >= GLOBAL_NARY_MIN #error (cadscene_vk.cpp 249-251)
ShaderCompiles(config) == ~(config.globalNaryN >= config.globalNaryMin)

\* Sample::initRenderer on the one-object scene
RendererOf(tweak) ==
  [config |-> tweak.config @@ [objectFrom |-> 0, objectNum |-> Size(m_objects)],
   mode |-> "MODE_PER_TRI_ID_FS",
   maxCombine |-> maxCombine_unbounded,
   shaderValid |-> ShaderCompiles(tweak.config)]

InitUI ==
  /\ csf = <<>>
  /\ m_geometry = RangeGeometry
  /\ m_objects = RangeObjects(1)
  /\ m_tweak = [config |-> Config_default]
  /\ m_lastTweak = m_tweak
  /\ m_materials = <<>> /\ m_numObjectParts = 0
  /\ m_config = RendererOf(m_tweak)
  /\ \E r \in fillDrawItems(<<>>, m_geometry, m_objects, m_config.config, m_config.maxCombine,
                            [drawCalls |-> 0, drawTriangles |-> 0]) :
       m_drawItems = r[1] /\ m_renderStats = r[2]
  /\ FillIdle
  /\ PickIdle
  /\ CmdIdle
  /\ DepthIdle
  /\ MemIdle
  /\ defines = NoDefines
  /\ idsBuffer = <<>>
  /\ idsOffset = 0
  /\ windowShift = 16
  /\ gl_PrimitiveID = 0
  /\ ShaderLocalsZero
  /\ pc = "think"

\* one Sample::think: the UI pass with what the user typed, the renderer
\* re-initialised if a setting differs from m_lastTweak, m_lastTweak = m_tweak
Think ==
  /\ pc = "think"
  /\ \E typedN \in {{}} \cup { {x} : x \in NaryInputs },
        typedMin \in {{}} \cup { {x} : x \in FallbackInputs } :
       LET n1 == InputIntClamped(m_tweak.config.globalNaryN, typedN, 3, 16)
           m1 == InputIntClamped(m_tweak.config.globalNaryMin, typedMin, n1 + 1, 10000)
           tweak == [m_tweak EXCEPT !.config.globalNaryN = n1, !.config.globalNaryMin = m1]
       IN  /\ m_tweak' = tweak
           /\ m_lastTweak' = tweak
           /\ IF tweak.config.globalNaryN # m_lastTweak.config.globalNaryN
                 \/ tweak.config.globalNaryMin # m_lastTweak.config.globalNaryMin
                THEN /\ m_config' = RendererOf(tweak)
                     /\ \E r \in fillDrawItems(<<>>, m_geometry, m_objects, m_config'.config,
                                               m_config'.maxCombine,
                                               [drawCalls |-> 0, drawTriangles |-> 0]) :
                          m_drawItems' = r[1] /\ m_renderStats' = r[2]
                ELSE UNCHANGED <<m_config, m_drawItems, m_renderStats>>
  /\ UNCHANGED <<csf, m_geometry, m_objects, fillVars, pickVars, memVars, depthVars, cmdVars, sceneKept, shaderVars, pc>>

NextUI == Think

SpecUI == InitUI /\ [][NextUI]_vars

\* C19: whatever is typed into "N-ary N" and "N-ary fallback at", in any
\* order and any number of times, the settings and every renderer
\* initialised from them have globalNaryN < globalNaryMin (and the shader's
\* #if never fires).
C19_NaryNBelowFallback ==
  pc = "think" =>
    /\ m_tweak.config.globalNaryN < m_tweak.config.globalNaryMin
    /\ m_config.config.globalNaryN < m_config.config.globalNaryMin
    /\ m_config.shaderValid

\* N was raised to 16 over a fallback of at most 16: the fallback followed to
\* 17 (a value that cannot be typed) and the renderer was initialised with both
C19_Witness ==
  /\ pc = "think"
  /\ m_config.config.globalNaryN = 16
  /\ m_config.config.globalNaryMin = 17
  /\ Len(m_drawItems) = 1

-----------------------------------------------------------------------------
(* loadCSF's failure.                                                      *)

\* C20: a loadCSF that fails returns false and leaves materials, geometries,
\* objects and the part total exactly as they were before the call.
C20_FailedLoadCommitsNothing ==
  [][(pc = "init_scene" /\ ~csf.loads) =>
       /\ pc' = "load_failed"
       /\ m_materials' = m_materials
       /\ m_geometry' = m_geometry
       /\ m_objects' = m_objects
       /\ m_numObjectParts' = m_numObjectParts]_vars

\* a reload failed: the scene still has the materials and the part total of
\* the load before it
C20_Witness ==
  /\ pc = "load_failed"
  /\ m_numObjectParts > 0
  /\ m_materials = csf.file.materials
  /\ m_geometry = <<>>

-----------------------------------------------------------------------------
(* Global search on a window of one part (cadscene_vk.cpp 385-425).        *)

\* float(trianglesSecondLast - triangleOffset): the numerator of
\* trianglesPerPart, whose denominator max(1.0, float(partCount - 1)) is
\* never zero.  trianglesPerPart is then the divisor of value in the guess.
trianglesPerPart_numerator ==
  idsBuffer[partOffset + partCount - 1] - idsBuffer[partOffset]

\* the guess has been computed by this fragment
GuessComputed == ~GuessOff /\ pc \in {"gs_probe", "gs_nary", "gs_binary", "gs_done"}

\* what holds of a one-part window apart from the division: the reads stay
\* inside the window and the result is partOffset
OnePartReadsAndResult ==
  (GuessComputed /\ partCount = 1) =>
    /\ reads \subseteq Window
    /\ guess = partOffset
    /\ pc = "gs_done" => partIndex = partOffset

\* C21: with the guess enabled and partCount = 1, no division by zero occurs
\* (the divisor trianglesPerPart of the guess is not zero), every index read
\* lies inside [partOffset, partOffset + partCount) and the result is
\* partOffset.
C21_OnePartWindowSafe ==
  (GuessComputed /\ partCount = 1) =>
    /\ trianglesPerPart_numerator # 0
    /\ reads \subseteq Window
    /\ pc = "gs_done" => partIndex = partOffset

-----------------------------------------------------------------------------
(* GeometryMemoryVK (cadscene_vk.cpp 28-103) and the allocation phase of   *)
(* CadSceneVK::init (cadscene_vk.cpp 105-135).                             *)

\* geometries CadSceneVK::init allocates for
MaxAllocs == 3
\* parts of one of those geometries
MaxAllocParts == 4

\* m_alignment = 16; m_vboAlignment = 16;
m_alignment == 16
\* sizeof(Vertex): three floats and two 16-bit normal components
sizeof_Vertex == 16
\* entries finalize adds to the part-id buffer
PartIdsPadding == 32
\* largest "search batch" of the UI
MaxSearchBatch == 32

\* alignedSize(sz, align) = ((sz + align - 1) / align) * align
alignedSize(sz, align) == ((sz + align - 1) \div align) * align

\* The maxChunk handed to GeometryMemoryVK::init is 256 MB; the chunks of the
\* model are a few allocations long so that alloc opens more than one.
MaxChunkChoices == {4 * m_alignment, 8 * m_alignment}

BufferNames == {"vbo", "ibo", "triangleIds", "partIds"}

\* Chunk chunk = {}: info.range of the four buffers, and the sizes the
\* buffers were created with, one record per finalize of the chunk
Chunk_default ==
  [vbo |-> 0, ibo |-> 0, triangleIds |-> 0, partIds |-> 0, created |-> <<>>]

\* finalize with no padding of the part-id buffer
finalize_NoPadding(chunks) ==
  IF Len(chunks) = 0 THEN chunks
  ELSE LET chunk == chunks[Len(chunks)]
           sizes == [vbo |-> chunk.vbo, ibo |-> chunk.ibo, triangleIds |-> chunk.triangleIds,
                     partIds |-> chunk.partIds]
       IN  [chunks EXCEPT ![Len(chunks)] =
              [vbo |-> sizes.vbo, ibo |-> sizes.ibo, triangleIds |-> sizes.triangleIds,
               partIds |-> sizes.partIds, created |-> Append(chunk.created, sizes)]]

\* GeometryMemoryVK::finalize: the active chunk's buffers are created with
\* the ranges reached, the part-id buffer with 32 entries more;
\* createResBuffer leaves info.range at the size created (0 for no buffer)
finalize(chunks) ==
  IF Len(chunks) = 0 THEN chunks
  ELSE LET chunk == chunks[Len(chunks)]
           sizes == [vbo |-> chunk.vbo, ibo |-> chunk.ibo, triangleIds |-> chunk.triangleIds,
                     partIds |-> chunk.partIds + sizeof_uint32 * PartIdsPadding]
       IN  [chunks EXCEPT ![Len(chunks)] =
              [vbo |-> sizes.vbo, ibo |-> sizes.ibo, triangleIds |-> sizes.triangleIds,
               partIds |-> sizes.partIds, created |-> Append(chunk.created, sizes)]]

\* alloc's test for a new chunk
NeedsNewChunk(mem, vboSize, iboSize, triangleIdsSize, partIdsSize) ==
  \/ Len(mem.m_chunks) = 0
  \/ LET active == mem.m_chunks[Len(mem.m_chunks)]
     IN  \/ active.vbo + vboSize > mem.m_maxChunk
         \/ active.ibo + iboSize > mem.m_maxChunk
         \/ active.triangleIds + triangleIdsSize > mem.m_maxChunk
         \/ active.partIds + partIdsSize > mem.m_maxChunk

\* alloc that rounds no size up
alloc_Unaligned(mem, vboSize0, iboSize0, triangleIdsSize0, partIdsSize0) ==
  LET chunks == IF NeedsNewChunk(mem, vboSize0, iboSize0, triangleIdsSize0, partIdsSize0)
                  THEN Append(finalize(mem.m_chunks), Chunk_default)
                  ELSE mem.m_chunks
      chunk  == chunks[Len(chunks)]
  IN  << [mem EXCEPT !.m_chunks =
            [chunks EXCEPT ![Len(chunks)] =
               [chunk EXCEPT !.vbo = @ + vboSize0, !.ibo = @ + iboSize0,
                             !.triangleIds = @ + triangleIdsSize0,
                             !.partIds = @ + partIdsSize0]]],
         [chunkIndex |-> Len(chunks) - 1, vboOffset |-> chunk.vbo, iboOffset |-> chunk.ibo,
          triangleIdsOffset |-> chunk.triangleIds, partIdsOffset |-> chunk.partIds] >>

\* GeometryMemoryVK::alloc: the memory after the call and the allocation
alloc(mem, vboSize0, iboSize0, triangleIdsSize0, partIdsSize0) ==
  LET vboSize         == alignedSize(vboSize0, m_alignment)
      iboSize         == alignedSize(iboSize0, m_alignment)
      triangleIdsSize == alignedSize(triangleIdsSize0, m_alignment)
      partIdsSize     == alignedSize(partIdsSize0, m_alignment)
      chunks == IF NeedsNewChunk(mem, vboSize, iboSize, triangleIdsSize, partIdsSize)
                  THEN Append(finalize(mem.m_chunks), Chunk_default)
                  ELSE mem.m_chunks
      chunk  == chunks[Len(chunks)]
  IN  << [mem EXCEPT !.m_chunks =
            [chunks EXCEPT ![Len(chunks)] =
               [chunk EXCEPT !.vbo = @ + vboSize, !.ibo = @ + iboSize,
                             !.triangleIds = @ + triangleIdsSize,
                             !.partIds = @ + partIdsSize]]],
         [chunkIndex |-> Len(chunks) - 1, vboOffset |-> chunk.vbo, iboOffset |-> chunk.ibo,
          triangleIdsOffset |-> chunk.triangleIds, partIdsOffset |-> chunk.partIds] >>

\* the sizes CadSceneVK::init hands to alloc for one geometry; the part-id
\* array is the loader's array of per-part triangle counts
vboSizeOf(geom)         == sizeof_Vertex * geom.numVertices
triangleIdsSizeOf(geom) == geom.trianglePartIdsSize
partIdsSizeOf(geom)     == sizeof_uint32 * Size(geom.parts)

\* a loaded geometry of n parts of one triangle, each triangle sharing two
\* vertices with the one before it
AllocGeometry(n) ==
  LET geom == LoadGeometry(CsfGeometry([p \in 0 .. n - 1 |-> 3]))
  IN  [f \in DOMAIN geom \cup {"numVertices"} |-> IF f = "numVertices" THEN n + 2 ELSE geom[f]]
AllocGeometries == { AllocGeometry(n) : n \in 1 .. MaxAllocParts }

\* the part table of the object drawn: one material for all parts, or
\* materials alternating so that every part starts an item
AllocObject(g, n, alternate) ==
  [matrixIndex |-> 0, geometryIndex |-> g, uniquePartOffset |-> 0,
   parts |-> [p \in 0 .. n - 1 |->
                [active |-> 1, matrixIndex |-> 0,
                 materialIndex |-> IF alternate THEN p % 2 ELSE 0]]]

InitAlloc ==
  /\ csf = <<>>
  /\ \E n \in 0 .. MaxAllocs : m_geometry \in Arrays(n, AllocGeometries)
  /\ m_objects = <<>>
  /\ m_config = <<>>
  /\ m_drawItems = <<>>
  /\ m_renderStats = [drawCalls |-> 0, drawTriangles |-> 0]
  /\ FillIdle
  /\ PickIdle
  /\ UiIdle
  /\ CmdIdle
  /\ DepthIdle
  /\ MemIdle
  /\ defines = NoDefines
  /\ idsBuffer = <<>>
  /\ idsOffset = 0
  /\ windowShift = 16
  /\ gl_PrimitiveID = 0
  /\ ShaderLocalsZero
  /\ pc = "vk_init"

\* CadSceneVK::init up to m_geometryMem.init; it returns at once for a
\* scene without geometry
GmInit ==
  /\ pc = "vk_init"
  /\ \E maxChunk \in MaxChunkChoices :
       m_geometryMem' = [m_maxChunk |-> IF Size(m_geometry) = 0 THEN 0 ELSE maxChunk,
                         m_chunks |-> <<>>]
  /\ pc' = IF Size(m_geometry) = 0 THEN "vk_done" ELSE "vk_alloc"
  /\ UNCHANGED <<csf, m_geometry, m_objects, m_config, m_drawItems, m_renderStats, fillVars,
                 pickVars, vk_geometry, ls_draw, depthVars, cmdVars, uiVars, sceneKept, shaderVars>>

\* one pass of the allocation loop
GmAlloc ==
  /\ pc = "vk_alloc"
  /\ Len(vk_geometry) < Size(m_geometry)
  /\ LET cadgeom == m_geometry[Len(vk_geometry)]
         r == alloc(m_geometryMem, vboSizeOf(cadgeom), cadgeom.iboSize,
                    triangleIdsSizeOf(cadgeom), partIdsSizeOf(cadgeom))
     IN  /\ m_geometryMem' = r[1]
         /\ vk_geometry' = Append(vk_geometry, r[2])
  /\ UNCHANGED <<csf, m_geometry, m_objects, m_config, m_drawItems, m_renderStats, fillVars,
                 pickVars, ls_draw, depthVars, cmdVars, uiVars, sceneKept, shaderVars, pc>>

\* m_geometryMem.finalize() after the loop
GmFinalize ==
  /\ pc = "vk_alloc"
  /\ Len(vk_geometry) = Size(m_geometry)
  /\ m_geometryMem' = [m_geometryMem EXCEPT !.m_chunks = finalize(@)]
  /\ pc' = "vk_done"
  /\ UNCHANGED <<csf, m_geometry, m_objects, m_config, m_drawItems, m_renderStats, fillVars,
                 pickVars, vk_geometry, ls_draw, depthVars, cmdVars, uiVars, sceneKept, shaderVars>>

\* A local-search draw of one combined DrawItem of an object of geometry g:
\* PUSH.idsAddr is geo.partIdsAddr = chunk.partIds.addr + partIdsOffset, the
\* shader decodes its partOffset and reads entries partOffset + i for every
\* i < SEARCH_COUNT.  bytes: the first byte of each entry read, from the
\* start of the chunk's buffer.
GmSearchDraw ==
  /\ pc = "vk_done"
  /\ ls_draw = {}
  /\ \E g \in DOMAIN m_geometry, alternate \in BOOLEAN,
        batch \in {MinSearchBatch, MaxSearchBatch}, shift \in {8, 16} :
       LET geo   == m_geometry[g]
           obj   == AllocObject(g, Size(geo.parts), alternate)
           items == FillCombined(<<>>, [ignoreMaterials |-> FALSE], obj, geo, 0, batch)
       IN  \E k \in 1 .. Len(items) :
             LET di == items[k]
                 po == WindowOffset(instanceIndexOf("MODE_PER_TRI_PART_SEARCH_FS", di), shift)
             IN  ls_draw' =
                   { [chunkIndex |-> vk_geometry[g + 1].chunkIndex,
                      di |-> di, SEARCH_COUNT |-> batch, partOffset |-> po,
                      bytes |-> { vk_geometry[g + 1].partIdsOffset + sizeof_uint32 * (po + i) :
                                    i \in 0 .. batch - 1 }] }
  /\ pc' = "vk_drawn"
  /\ UNCHANGED <<csf, m_geometry, m_objects, m_config, m_drawItems, m_renderStats, fillVars,
                 pickVars, m_geometryMem, vk_geometry, depthVars, cmdVars, uiVars, sceneKept, shaderVars>>

NextAlloc ==
  \/ GmInit
  \/ GmAlloc
  \/ GmFinalize
  \/ GmSearchDraw

SpecAlloc == InitAlloc /\ [][NextAlloc]_vars

\* the draw made, its chunk and the size its part-id buffer was created with
TheDraw == CHOOSE d \in ls_draw : TRUE
PartIdsCreated(c) == m_geometryMem.m_chunks[c + 1].created[1].partIds

\* C22: for every combined DrawItem with maxPartsPerDraw = SEARCH_COUNT <= 32
\* and every i < SEARCH_COUNT, entry partOffset + i of the geometry's
\* part-count region lies inside the chunk's part-count buffer as finalize
\* created it, both for the DrawItem's own partIndex and for the partOffset
\* the shader decodes.
C22_LocalSearchReadsInsideBuffer ==
  pc = "vk_drawn" =>
    LET d    == TheDraw
        base == vk_geometry[d.di.geometryIndex + 1].partIdsOffset
    IN  /\ d.di.partCount <= d.SEARCH_COUNT /\ d.SEARCH_COUNT <= PartIdsPadding
        /\ \A b \in d.bytes : b >= 0 /\ b + sizeof_uint32 <= PartIdsCreated(d.chunkIndex)
        /\ \A i \in 0 .. d.SEARCH_COUNT - 1 :
             base + sizeof_uint32 * (d.di.partIndex + i) + sizeof_uint32
               <= PartIdsCreated(d.chunkIndex)

\* a draw of the last part of the last geometry of a chunk whose part counts
\* fill their aligned region, with SEARCH_COUNT = 32: the last entry read is
\* the 31st of the padding
C22_Witness ==
  /\ pc = "vk_drawn"
  /\ LET d == TheDraw
     IN  /\ d.SEARCH_COUNT = MaxSearchBatch
         /\ d.di.partIndex = Size(m_geometry[d.di.geometryIndex].parts) - 1
         /\ d.partOffset = d.di.partIndex
         /\ partIdsSizeOf(m_geometry[d.di.geometryIndex]) % m_alignment = 0
         /\ \E b \in d.bytes :
              b + sizeof_uint32 = PartIdsCreated(d.chunkIndex) - sizeof_uint32
         /\ Len(m_geometryMem.m_chunks) > 1

-----------------------------------------------------------------------------
(* The chunk allocator as CadSceneVK::init uses it.                        *)

\* offset and requested size of geometry g in buffer b
AllocOffset(g, b) ==
  CASE b = "vbo" -> vk_geometry[g + 1].vboOffset
    [] b = "ibo" -> vk_geometry[g + 1].iboOffset
    [] b = "triangleIds" -> vk_geometry[g + 1].triangleIdsOffset
    [] OTHER -> vk_geometry[g + 1].partIdsOffset
AllocSize(g, b) ==
  CASE b = "vbo" -> vboSizeOf(m_geometry[g])
    [] b = "ibo" -> m_geometry[g].iboSize
    [] b = "triangleIds" -> triangleIdsSizeOf(m_geometry[g])
    [] OTHER -> partIdsSizeOf(m_geometry[g])
AllocChunk(g) == vk_geometry[g + 1].chunkIndex

\* C30: after the alloc calls and the closing finalize, every returned offset
\* is a multiple of 16, two allocations of one chunk occupy disjoint byte
\* ranges in each of the four buffers, every allocation lies inside the size
\* its chunk's buffer was created with, and every chunk was finalized exactly
\* once.
C30_ChunkAllocator ==
  pc \in {"vk_done", "vk_drawn"} =>
    /\ Len(vk_geometry) = Size(m_geometry)
    /\ \A g \in DOMAIN m_geometry, b \in BufferNames :
         /\ AllocOffset(g, b) % 16 = 0
         /\ AllocChunk(g) \in 0 .. Len(m_geometryMem.m_chunks) - 1
         /\ AllocOffset(g, b) + AllocSize(g, b)
              <= m_geometryMem.m_chunks[AllocChunk(g) + 1].created[1][b]
         /\ \A g2 \in DOMAIN m_geometry :
              (g2 # g /\ AllocChunk(g2) = AllocChunk(g)) =>
                \/ AllocOffset(g, b) + AllocSize(g, b) <= AllocOffset(g2, b)
                \/ AllocOffset(g2, b) + AllocSize(g2, b) <= AllocOffset(g, b)
    /\ \A c \in 1 .. Len(m_geometryMem.m_chunks) :
         Len(m_geometryMem.m_chunks[c].created) = 1

\* three geometries in two chunks: two share a chunk, the second of them at
\* a non-zero offset behind sizes that are no multiples of 16
C30_Witness ==
  /\ pc = "vk_done"
  /\ Len(m_geometryMem.m_chunks) = 2
  /\ Size(m_geometry) = 3
  /\ AllocChunk(0) = AllocChunk(1)
  /\ AllocChunk(2) # AllocChunk(1)
  /\ AllocOffset(1, "ibo") > 0
  /\ AllocSize(0, "ibo") % 16 # 0
  /\ AllocSize(0, "partIds") % 16 # 0

-----------------------------------------------------------------------------
(* The DrawItems of the combined mode and the parts they name.             *)

\* the window of parts a DrawItem names: partIndex .. partIndex + partCount - 1
NamedParts(di) == di.partIndex .. di.partIndex + di.partCount - 1

\* C23: every DrawItem of the combined mode names exactly the parts it
\* draws: range.offset is the index offset of part partIndex, range.count is
\* the sum of the index counts of parts partIndex .. partIndex + partCount - 1,
\* and each of those parts is active in the object.
C23_ItemNamesItsParts ==
  CombinedMode =>
    \A k \in 1 .. Len(m_drawItems) :
      LET di  == m_drawItems[k]
          obj == m_objects[di.objectIndex]
          geo == GeometryOf(obj)
      IN  /\ di.range.offset = IndexOffset(geo, di.partIndex)
          /\ NamedParts(di) \subseteq DOMAIN obj.parts
          /\ di.range.count =
               SumRange([p \in DOMAIN geo.parts |-> IndexCount(geo, p)],
                        di.partIndex, di.partIndex + di.partCount)
          /\ \A p \in NamedParts(di) : obj.parts[p].active = 1

\* the same for the objects that have no inactive part without indices
C23_HoldsWithoutEmptyInactiveParts ==
  CombinedMode =>
    \A k \in 1 .. Len(m_drawItems) :
      LET di  == m_drawItems[k]
          obj == m_objects[di.objectIndex]
          geo == GeometryOf(obj)
      IN  (\A p \in DOMAIN obj.parts : obj.parts[p].active = 1 \/ IndexCount(geo, p) # 0) =>
            /\ di.range.offset = IndexOffset(geo, di.partIndex)
            /\ NamedParts(di) \subseteq DOMAIN obj.parts
            /\ di.range.count =
                 SumRange([p \in DOMAIN geo.parts |-> IndexCount(geo, p)],
                          di.partIndex, di.partIndex + di.partCount)
            /\ \A p \in NamedParts(di) : obj.parts[p].active = 1

-----------------------------------------------------------------------------
(* Size of the emitted DrawItems.                                          *)

\* C24: in both modes every emitted DrawItem has range.count > 0; in the
\* combined mode with maxPartsPerDraw = k every emitted DrawItem has
\* 1 <= partCount <= k.
C24_NoEmptyItemNoOversizedWindow ==
  Ready =>
    \A k \in 1 .. Len(m_drawItems) :
      /\ m_drawItems[k].range.count > 0
      /\ CombinedMode =>
           /\ 1 <= m_drawItems[k].partCount
           /\ m_drawItems[k].partCount <= m_config.maxCombine

\* a window of two parts: an item that fills it, closed by the limit, and an
\* active part without indices that no item starts at
C24_Witness ==
  /\ CombinedMode
  /\ m_config.maxCombine = 2
  /\ \E k \in 1 .. Len(m_drawItems) : m_drawItems[k].partCount = 2
  /\ \E i \in VisibleObjects : \E p \in DOMAIN m_objects[i].parts :
       /\ m_objects[i].parts[p].active = 1
       /\ IndexCount(GeometryOf(m_objects[i]), p) = 0
       /\ \A k \in 1 .. Len(m_drawItems) :
            m_drawItems[k].objectIndex = i => p \notin NamedParts(m_drawItems[k])

-----------------------------------------------------------------------------
(* The statistics of fillDrawItems (renderer.cpp 141-145).                 *)

\* triangles of the active parts of object i
ActiveTriangles(i) ==
  LET obj == m_objects[i]
      geo == GeometryOf(obj)
  IN  SumRange([p \in DOMAIN obj.parts |->
                  IF obj.parts[p].active = 1 THEN IndexCount(geo, p) \div 3 ELSE 0],
               0, Size(obj.parts))

\* triangles of the active parts of the visible objects
VisibleTriangles ==
  IF VisibleObjects = {} THEN 0
  ELSE SumRange([i \in DOMAIN m_objects |-> IF i \in VisibleObjects THEN ActiveTriangles(i) ELSE 0],
                0, Size(m_objects))

\* every part's index count is a multiple of 3
TriangleLists ==
  \A g \in DOMAIN m_geometry : \A p \in DOMAIN m_geometry[g].parts :
    IndexCount(m_geometry[g], p) % 3 = 0

\* C25: fillDrawItems on an empty list and reset statistics leaves drawCalls
\* at the number of DrawItems and drawTriangles at the sum of their
\* range.count / 3; with index counts that are multiples of 3 that sum is the
\* triangle count of the active parts of the visible objects, whatever the
\* mode, maxPartsPerDraw and the sorted flag.
C25_StatsCountItemsAndTriangles ==
  Ready =>
    /\ m_renderStats.drawCalls = Len(m_drawItems)
    /\ m_renderStats.drawTriangles =
         SumRange([k \in 0 .. Len(m_drawItems) - 1 |-> m_drawItems[k + 1].range.count \div 3],
                  0, Len(m_drawItems))
    /\ TriangleLists => m_renderStats.drawTriangles = VisibleTriangles

\* a scene loaded with a clone, half of it visible: one sorted combined
\* DrawItem of two triangles for the visible object, none for the other
C25_Witness ==
  /\ CombinedMode
  /\ m_config.config.sorted
  /\ Size(m_objects) = 2
  /\ VisibleObjects = {0}
  /\ m_renderStats = [drawCalls |-> 1, drawTriangles |-> 2]
  /\ ActiveTriangles(1) = 2

-----------------------------------------------------------------------------
(* Termination of the global search.                                       *)

\* C26: the guess loop runs at most 32 iterations, the N-ary loop at most
\* GLOBAL_NARY_ITERATIONS_MAX, and the binary loop ends with l >= h within 32
\* iterations: it never leaves by its canary.
C26_SearchTerminatesByConvergence ==
  /\ pc = "gs_probe" => canary < CanaryLimit
  /\ pc = "gs_nary" => canary <= defines.GLOBAL_NARY_ITERATIONS_MAX
  /\ pc = "gs_binary" => (canary <= CanaryLimit /\ (canary = CanaryLimit => l >= h))
  /\ pc = "gs_done" => (l >= h /\ canary <= CanaryLimit)

\* the binary search alone on the long window: it converged after 14
\* iterations
C26_Witness ==
  /\ pc = "gs_done"
  /\ partCount = LongWindowParts
  /\ GuessOff /\ NaryOff
  /\ canary >= 14
  /\ l >= h

\* the long window with all phases on: the guess loop doubled its step at
\* least 8 times before it bracketed the value and the N-ary loop ran
LongWindowAllPhases ==
  /\ pc = "gs_nary"
  /\ partCount = LongWindowParts
  /\ ~GuessOff
  /\ bound >= 256
  /\ canary > 0

-----------------------------------------------------------------------------
(* The early depth test and the picking register: layout(early_fragment_   *)
(* tests) (cadscene_vk.cpp 290-292), depthCompareOp (renderer_vk.cpp 309), *)
(* the render pass of RendererVK::draw (renderer_vk.cpp 497-504).          *)

\* fragments the frame's draws rasterize at the pixel under the mouse
MaxRasterized == 3

\* the depth test with VK_COMPARE_OP_LESS
depthCompareOp_Less(fragmentDepth, stored) == fragmentDepth < stored

\* state.depthStencilState.depthCompareOp = VK_COMPARE_OP_LESS_OR_EQUAL
depthCompareOp(fragmentDepth, stored) == fragmentDepth <= stored

\* res->cmdBeginRenderPass(primary, true, true) begins the pass with cleared
\* attachments: the depth attachment holds the far plane, the largest depth
DepthCleared == WordSize - 1

\* the fragments at the pixel under the mouse
MouseFragmentChoices == { f \in FragmentChoices : f.atMouse }

InitDepth ==
  /\ csf = <<>> /\ m_geometry = <<>> /\ m_objects = <<>>
  /\ m_config = <<>> /\ m_drawItems = <<>>
  /\ m_renderStats = [drawCalls |-> 0, drawTriangles |-> 0]
  /\ FillIdle
  /\ UiIdle
  /\ CmdIdle
  /\ MemIdle
  /\ \E hit \in UninitHits :
       /\ view_buffer = [o \in {0, sizeof_SceneData} |-> IF o = 0 THEN [frame |-> 1] ELSE AllOnes]
       /\ ray_buffer = [o \in {0} |-> hit]
  /\ frame = 0
  /\ pk_fragments = {} /\ pk_pending = {} /\ pk_written = {} /\ pk_highlighted = {}
  /\ pk_snapshot = {}
  /\ zs_rasterized \in SubsetsUpTo(MouseFragmentChoices, MaxRasterized)
  /\ \E stale \in 0 .. DepthCleared : zs_depth = stale
  /\ zs_discarded = {}
  /\ defines = NoDefines
  /\ idsBuffer = <<>>
  /\ idsOffset = 0
  /\ windowShift = 16
  /\ gl_PrimitiveID = 0
  /\ ShaderLocalsZero
  /\ pc = "zs_reset"

depthFixed == <<csf, m_geometry, m_objects, m_config, m_drawItems, m_renderStats, fillVars,
                memVars, cmdVars, uiVars, sceneKept, shaderVars>>

\* vkCmdFillBuffer(ray.buffer, 0, sizeof(RayData), ~0), the barrier and the
\* begin of the render pass, lines 497-502
ZsBeginRenderPass ==
  /\ pc = "zs_reset"
  /\ ray_buffer' = vkCmdFillBuffer(ray_buffer, 0, sizeof_RayData, AllOnes)
  /\ zs_depth' = DepthCleared
  /\ pc' = "pk_draw"
  /\ UNCHANGED <<view_buffer, frame, pk_fragments, pk_pending, pk_written, pk_highlighted,
                 pk_snapshot, zs_rasterized, zs_discarded, depthFixed>>

\* The early depth test of one fragment.  The draws are submitted in any
\* order, so any fragment not yet tested may be the next; the test and the
\* depth write come before the fragment's shader invocation, which runs only
\* if the test passes (PkFragment, at any later time).
ZsEarlyTest ==
  /\ pc = "pk_draw"
  /\ \E f \in zs_rasterized :
       /\ zs_rasterized' = zs_rasterized \ {f}
       /\ IF depthCompareOp(f.depthBits, zs_depth)
            THEN /\ zs_depth' = f.depthBits
                 /\ pk_fragments' = pk_fragments \cup {f}
                 /\ pk_pending' = pk_pending \cup {f}
                 /\ UNCHANGED zs_discarded
            ELSE /\ zs_discarded' = zs_discarded \cup {f}
                 /\ UNCHANGED <<zs_depth, pk_fragments, pk_pending>>
  /\ UNCHANGED <<view_buffer, ray_buffer, frame, pk_written, pk_highlighted, pk_snapshot, pc,
                 depthFixed>>

NextDepth ==
  \/ ZsBeginRenderPass
  \/ ZsEarlyTest
  \/ PkFragment

SpecDepth == InitDepth /\ [][NextDepth]_vars

\* all fragments of the frame at the pixel, and the smallest depth among them
RasterizedAtMouse == zs_rasterized \cup zs_discarded \cup pk_fragments
MinDepth == SetMin({ f.depthBits : f \in RasterizedAtMouse })

-----------------------------------------------------------------------------
(* The frame: Sample::think (renderer_vk.cpp 1039-1173) from the UI pass   *)
(* to the renderer's draw, with every setting the renderer is built from.  *)

\* parts of the geometry the two objects of the frame's scene draw
FrameParts == 5
\* largest "model copies" typed
MaxFrameCopies == 2

\* the renderers of the "renderer" combo box that batch the parts
FrameRenderers == {"MODE_PER_TRI_ID_FS", "MODE_PER_TRI_PART_SEARCH_FS"}
\* values typed into "search batch" and "model copies"
BatchInputs == {1, MinSearchBatch, searchBatch_default}
CopiesInputs == 0 .. MaxFrameCopies

\* the model file: two objects drawing one geometry of FrameParts parts,
\* the parts' materials alternating or all the same
FrameFiles ==
  { InstancedFile([p \in 0 .. FrameParts - 1 |-> 3],
                  [p \in 0 .. FrameParts - 1 |-> [materialIDX |-> (p % 2) * m, nodeIDX |-> -1]]) :
      m \in 0 .. 1 }

\* Sample::Tweak as declared (renderer_vk.cpp 584-597), percent in thousandths
Tweak_default(renderer) ==
  [renderer |-> renderer, copies |-> 1, percent |-> 1001, config |-> Config_default]

\* the test of think without tweakChanged(m_tweak.percent)
RendererSettingsChanged_NoPercent(tweak, last) ==
  \/ tweak.renderer # last.renderer
  \/ tweak.config.sorted # last.config.sorted
  \/ tweak.config.searchBatch # last.config.searchBatch
  \/ tweak.config.ignoreMaterials # last.config.ignoreMaterials
  \/ tweak.config.globalSearchGuess # last.config.globalSearchGuess
  \/ tweak.config.globalNaryN # last.config.globalNaryN
  \/ tweak.config.globalNaryMin # last.config.globalNaryMin
  \/ tweak.config.globalNaryMaxIter # last.config.globalNaryMaxIter

\* tweakChanged(m_tweak.renderer) || tweakChanged(m_tweak.config.sorted) || ...
\* (renderer_vk.cpp 1081-1086), for the settings the model carries
RendererSettingsChanged(tweak, last) ==
  \/ tweak.renderer # last.renderer
  \/ tweak.config.sorted # last.config.sorted
  \/ tweak.percent # last.percent
  \/ tweak.config.searchBatch # last.config.searchBatch
  \/ tweak.config.ignoreMaterials # last.config.ignoreMaterials
  \/ tweak.config.globalSearchGuess # last.config.globalSearchGuess
  \/ tweak.config.globalNaryN # last.config.globalNaryN
  \/ tweak.config.globalNaryMin # last.config.globalNaryMin
  \/ tweak.config.globalNaryMaxIter # last.config.globalNaryMaxIter

\* Sample::initRenderer: Renderer::Config config{m_tweak.config};
\* objectFrom = 0; objectNum = uint32_t(size * percent); and the
\* switch(m_mode) of RendererVK::init
InitRendererConfig(tweak, objects) ==
  LET config == tweak.config @@
                  [objectFrom |-> 0, objectNum |-> (Size(objects) * tweak.percent) \div 1000]
  IN  [config      |-> config,
       mode        |-> tweak.renderer,
       maxCombine  |-> MaxCombineOf(tweak.renderer, config),
       shaderValid |-> ShaderCompiles(tweak.config)]

\* m_renderStats = Renderer::Stats(); m_renderer->init(...): the pairs
\* <<drawItems, stats>> the new renderer can leave; init returns before
\* fillDrawItems if a shader module is not valid
InitRendererOutcomes(renderer, geometry, objects) ==
  IF renderer.shaderValid
    THEN fillDrawItems(<<>>, geometry, objects, renderer.config, renderer.maxCombine,
                       [drawCalls |-> 0, drawTriangles |-> 0])
    ELSE { <<(<<>>), [drawCalls |-> 0, drawTriangles |-> 0]>> }

\* Sample::initScene: m_scene.unload(), then loadCSF
Sample_initScene(file, clones, loads) ==
  loadCSF([m_materials |-> m_materials, m_geometry |-> <<>>, m_objects |-> <<>>,
           m_numObjectParts |-> m_numObjectParts],
          file, clones, loads).scene

\* after Sample::begin: the scene loaded, the renderer initialised from the
\* settings of the command line, m_lastTweak = m_tweak
InitFrame ==
  /\ \E f \in FrameFiles : csf = [file |-> f, clones |-> 0, loads |-> TRUE]
  /\ m_materials = csf.file.materials
  /\ m_geometry = LoadGeometries(csf.file, 0)
  /\ m_objects = CloneObjects(csf.file, 0)
  /\ m_numObjectParts = NumObjectParts(csf.file)
  /\ \E r \in FrameRenderers : m_tweak = Tweak_default(r)
  /\ m_lastTweak = m_tweak
  /\ m_config = InitRendererConfig(m_tweak, m_objects)
  /\ \E r \in InitRendererOutcomes(m_config, m_geometry, m_objects) :
       m_drawItems = r[1] /\ m_renderStats = r[2]
  /\ FillIdle
  /\ PickIdle
  /\ CmdIdle
  /\ DepthIdle
  /\ MemIdle
  /\ defines = NoDefines
  /\ idsBuffer = <<>>
  /\ idsOffset = 0
  /\ windowShift = 16
  /\ gl_PrimitiveID = 0
  /\ ShaderLocalsZero
  /\ pc = "fr_think"

\* Sample::processUI (renderer_vk.cpp 926-978): the settings after one
\* pass, the user operating at most one widget in it
processUI(tweak) ==
  {tweak}
    \cup { [tweak EXCEPT !.renderer = r] : r \in FrameRenderers }
    \cup { [tweak EXCEPT !.percent = x] : x \in PercentChoices }
    \cup { [tweak EXCEPT !.config.sorted = ~@],
           [tweak EXCEPT !.config.ignoreMaterials = ~@],
           [tweak EXCEPT !.config.globalSearchGuess = ~@] }
    \cup { [tweak EXCEPT !.config.searchBatch =
                            InputIntClamped(@, {x}, MinSearchBatch, MaxSearchBatch)] :
             x \in BatchInputs }
    \cup { [tweak EXCEPT !.copies = InputIntClamped(@, {x}, 1, 16)] : x \in CopiesInputs }

\* Sample::think up to the call of draw: the UI pass, KEY_R, the scene
\* loaded again if "model copies" changed (the file may have become
\* unreadable), the renderer initialised again if a setting differs from
\* m_lastTweak
FrThink ==
  /\ pc = "fr_think"
  /\ \E tweak \in processUI(m_tweak), keyR \in BOOLEAN, loads \in BOOLEAN :
       LET sceneChanged == tweak.copies # m_lastTweak.copies
           scene == IF sceneChanged
                      THEN Sample_initScene(csf.file, tweak.copies - 1, loads)
                      ELSE [m_materials |-> m_materials, m_geometry |-> m_geometry,
                            m_objects |-> m_objects, m_numObjectParts |-> m_numObjectParts]
       IN  \* whether the file loads is asked only if it is loaded
           /\ sceneChanged \/ loads
           /\ m_tweak' = tweak
           /\ csf' = IF sceneChanged
                       THEN [file |-> csf.file, clones |-> tweak.copies - 1, loads |-> loads]
                       ELSE csf
           /\ m_materials' = scene.m_materials
           /\ m_geometry' = scene.m_geometry
           /\ m_objects' = scene.m_objects
           /\ m_numObjectParts' = scene.m_numObjectParts
           /\ IF keyR \/ sceneChanged \/ RendererSettingsChanged(tweak, m_lastTweak)
                THEN /\ m_config' = InitRendererConfig(tweak, scene.m_objects)
                     /\ \E r \in InitRendererOutcomes(m_config', scene.m_geometry, scene.m_objects) :
                          m_drawItems' = r[1] /\ m_renderStats' = r[2]
                ELSE UNCHANGED <<m_config, m_drawItems, m_renderStats>>
  /\ pc' = "fr_draw"
  /\ UNCHANGED <<m_lastTweak, fillVars, pickVars, memVars, depthVars, cmdVars, shaderVars>>

\* m_renderer->draw(m_shared, m_renderStats) and the rest of think:
\* m_lastTweak = m_tweak
FrDraw ==
  /\ pc = "fr_draw"
  /\ m_lastTweak' = m_tweak
  /\ pc' = "fr_think"
  /\ UNCHANGED <<csf, m_geometry, m_objects, m_config, m_drawItems, m_renderStats, m_tweak,
                 fillVars, pickVars, memVars, depthVars, cmdVars, sceneKept, shaderVars>>

NextFrame == FrThink \/ FrDraw

SpecFrame == InitFrame /\ [][NextFrame]_vars

-----------------------------------------------------------------------------
(* RendererVK::fillCmdBuffer (renderer_vk.cpp 172-278): the push constants *)
(* of every recorded draw.                                                 *)

\* items of the array handed to fillCmdBuffer
MaxCmdItems == 2
\* geometries of the scene the items refer to
MaxCmdGeometries == 2

\* uint32_t lastUniqueOffset = ~0.  The value is 4294967295; it stands here
\* as the largest integer TLC represents.
lastUniqueOffset_init == maxCombine_unbounded

\* the modes of the switch(m_mode)
CmdModes ==
  {"MODE_PER_DRAW_BASEINST", "MODE_PER_TRI_ID_GS", "MODE_PER_TRI_ID_FS",
   "MODE_PER_TRI_PART_SEARCH_GS", "MODE_PER_TRI_PART_SEARCH_FS"}

\* geom.triangleIdsAddr = chunk.triangleIds.addr + triangleIdsOffset and
\* geom.partIdsAddr = chunk.partIds.addr + partIdsOffset: every geometry has
\* its own two addresses
CmdSceneVK ==
  [g \in 0 .. MaxCmdGeometries - 1 |->
     [triangleIdsAddr |-> (2 * g + 1) * m_alignment,
      partIdsAddr     |-> (2 * g + 2) * m_alignment]]

\* the items the array can hold: any indices (-1 is what the caches start
\* from), any offset (~0 is what lastUniqueOffset starts from)
CmdItems ==
  { [geometryIndex |-> g, matrixIndex |-> x, materialIndex |-> m, objectOffset |-> o,
     objectIndex |-> 0, partIndex |-> 0, partCount |-> 1,
     range |-> [offset |-> 0, count |-> 3]] :
      g \in 0 .. MaxCmdGeometries - 1, x \in -1 .. 1, m \in -1 .. 1,
      o \in {0, lastUniqueOffset_init} }

\* the address the mode pushes for a geometry, if it pushes one
PushedIdsAddr(mode, geo) ==
  CASE mode \in {"MODE_PER_TRI_ID_GS", "MODE_PER_TRI_ID_FS"}                   -> {geo.triangleIdsAddr}
    [] mode \in {"MODE_PER_TRI_PART_SEARCH_GS", "MODE_PER_TRI_PART_SEARCH_FS"} -> {geo.partIdsAddr}
    [] OTHER                                                                    -> {}

\* int materialIndex = di.materialIndex; if(m_config.colorizeDraws) materialIndex = int(idx);
CmdMaterialIndex(config, di, idx) == IF config.colorizeDraws THEN idx ELSE di.materialIndex

\* the matrix pushed when the geometry changes
PushesMatrix_ByGeometry(last, di) == last.lastGeometry # di.geometryIndex

\* if(lastMatrix != di.matrixIndex)
PushesMatrix(last, di) == last.lastMatrix # di.matrixIndex

\* one pass of the loop on item di at index idx: <<last, push>> after its
\* vkCmdDrawIndexed
fillCmdBuffer_Item(last, push, mode, config, di, idx) ==
  LET geo           == CmdSceneVK[di.geometryIndex]
      newGeometry   == last.lastGeometry # di.geometryIndex
      newMatrix     == PushesMatrix(last, di)
      materialIndex == CmdMaterialIndex(config, di, idx)
      newMaterial   == last.lastMaterial # materialIndex
      newOffset     == di.objectOffset # last.lastUniqueOffset
  IN  << [lastGeometry     |-> di.geometryIndex,
          lastMatrix       |-> IF newMatrix THEN di.matrixIndex ELSE last.lastMatrix,
          lastMaterial     |-> materialIndex,
          lastUniqueOffset |-> di.objectOffset],
         [idsAddr          |-> IF newGeometry /\ PushedIdsAddr(mode, geo) # {}
                                 THEN CHOOSE a \in PushedIdsAddr(mode, geo) : TRUE
                                 ELSE push.idsAddr,
          matrixIndex      |-> IF newMatrix THEN di.matrixIndex ELSE push.matrixIndex,
          materialIndex    |-> IF newMaterial THEN materialIndex ELSE push.materialIndex,
          uniquePartOffset |-> IF newOffset THEN di.objectOffset ELSE push.uniquePartOffset] >>

\* setupCmdBuffer has created the command buffer: nothing is recorded, the
\* renderer has its mode and settings
InitCmd ==
  /\ csf = <<>>
  /\ m_geometry = <<>>
  /\ m_objects = <<>>
  /\ \E mode \in CmdModes, colorizeDraws \in BOOLEAN :
       m_config = [config |-> Config_default @@ [colorizeDraws |-> colorizeDraws],
                   mode   |-> mode]
  /\ m_drawItems = <<>>
  /\ m_renderStats = [drawCalls |-> 0, drawTriangles |-> 0]
  /\ FillIdle
  /\ PickIdle
  /\ UiIdle
  /\ DepthIdle
  /\ MemIdle
  /\ CmdIdle
  /\ defines = NoDefines
  /\ idsBuffer = <<>>
  /\ idsOffset = 0
  /\ windowShift = 16
  /\ gl_PrimitiveID = 0
  /\ ShaderLocalsZero
  /\ pc = "cmd_begin"

\* fillCmdBuffer up to its loop: the caches are set; a push constant that
\* no command has written holds whatever it holds
CmdBegin ==
  /\ pc = "cmd_begin"
  /\ cmd_last' = [lastMaterial |-> -1, lastGeometry |-> -1, lastMatrix |-> -1,
                  lastUniqueOffset |-> lastUniqueOffset_init]
  /\ \E garbage \in UninitInts :
       cmd_push' = [idsAddr |-> garbage, matrixIndex |-> garbage, materialIndex |-> garbage,
                    uniquePartOffset |-> garbage]
  /\ pc' = "cmd_loop"
  /\ UNCHANGED <<csf, m_geometry, m_objects, m_config, m_drawItems, m_renderStats, fillVars,
                 pickVars, memVars, depthVars, uiVars, sceneKept, shaderVars>>

\* one pass of the loop, up to its vkCmdDrawIndexed.  The array is any
\* array of up to MaxCmdItems items; m_drawItems is the part of it the loop
\* has read.
CmdDrawItem ==
  /\ pc \in {"cmd_loop", "cmd_drawn"}
  /\ Len(m_drawItems) < MaxCmdItems
  /\ \E di \in CmdItems :
       LET r == fillCmdBuffer_Item(cmd_last, cmd_push, m_config.mode, m_config.config, di,
                                   Len(m_drawItems))
       IN  /\ m_drawItems' = Append(m_drawItems, di)
           /\ cmd_last' = r[1]
           /\ cmd_push' = r[2]
  /\ pc' = "cmd_drawn"
  /\ UNCHANGED <<csf, m_geometry, m_objects, m_config, m_renderStats, fillVars,
                 pickVars, memVars, depthVars, uiVars, sceneKept, shaderVars>>

NextCmd == CmdBegin \/ CmdDrawItem

SpecCmd == InitCmd /\ [][NextCmd]_vars

\* the item of the draw recorded last
DrawnItem == m_drawItems[Len(m_drawItems)]

\* every item read so far has non-negative matrix and material indices and
\* an objectOffset other than 0xFFFFFFFF
CmdItemsInRange ==
  \A k \in 1 .. Len(m_drawItems) :
    /\ m_drawItems[k].matrixIndex >= 0
    /\ m_drawItems[k].materialIndex >= 0
    /\ m_drawItems[k].objectOffset # lastUniqueOffset_init

\* the pushed address is that of the drawn item's geometry, in the modes
\* that read an identifier buffer
PushedAddressIsItems ==
  \A a \in PushedIdsAddr(m_config.mode, CmdSceneVK[DrawnItem.geometryIndex]) : cmd_push.idsAddr = a

\* C29 as stated: at every recorded draw of a sequence of items in range,
\* the push constants hold the drawn item's matrixIndex, materialIndex,
\* objectOffset and identifier-buffer address.
C29_PushedStateIsItems ==
  (pc = "cmd_drawn" /\ CmdItemsInRange) =>
    /\ cmd_push.matrixIndex = DrawnItem.matrixIndex
    /\ cmd_push.materialIndex = DrawnItem.materialIndex
    /\ cmd_push.uniquePartOffset = DrawnItem.objectOffset
    /\ PushedAddressIsItems

\* C29 amended: the same, the material being the drawn item's only without
\* colorizeDraws; with it the pushed material is the index of the draw.
C29_PushedStateIsItemsOrDrawIndex ==
  (pc = "cmd_drawn" /\ CmdItemsInRange) =>
    /\ cmd_push.matrixIndex = DrawnItem.matrixIndex
    /\ cmd_push.materialIndex =
         IF m_config.config.colorizeDraws THEN Len(m_drawItems) - 1 ELSE DrawnItem.materialIndex
    /\ cmd_push.uniquePartOffset = DrawnItem.objectOffset
    /\ PushedAddressIsItems

\* a second draw of the same geometry, matrix and offset with another
\* material: only the material was pushed for it
C29_Witness ==
  /\ pc = "cmd_drawn"
  /\ CmdItemsInRange
  /\ ~m_config.config.colorizeDraws
  /\ m_config.mode = "MODE_PER_TRI_PART_SEARCH_FS"
  /\ Len(m_drawItems) = 2
  /\ m_drawItems[1].geometryIndex = m_drawItems[2].geometryIndex
  /\ m_drawItems[1].matrixIndex = m_drawItems[2].matrixIndex
  /\ m_drawItems[1].objectOffset = m_drawItems[2].objectOffset
  /\ m_drawItems[1].materialIndex # m_drawItems[2].materialIndex

====
